---- MODULE Spec2Model ----
(***************************************************************************)
(* The heka layout core (crates/heka/src/lib.rs): the generational slot    *)
(* store of capsules, the scene graph kept in Root, the dirty set, the     *)
(* opaque data arena (boxalloc.rs) and the two layout passes run by        *)
(* Root::compute.                                                          *)
(*                                                                         *)
(* Encoding.  Vec<T> is a sequence, index i of the source is element i+1.  *)
(* Option<T> is a record with a field `some`; the other fields hold the    *)
(* payload and are at fixed dummy values when `some` is FALSE.  A          *)
(* CapsuleRef is the record [id, generation].                              *)
(***************************************************************************)
EXTENDS Integers, Sequences, FiniteSets, TLC

(***************************************************************************)
(* Bounds of the exploration.                                              *)
(***************************************************************************)
MaxCalls == 5       \* calls of all operations together
MaxAdds == 3        \* calls of add_frame / add_frame_child
MaxRemoves == 2     \* calls of remove_frame
MaxStyleOps == 2    \* calls of Frame::update_style
MaxComputes == 2    \* calls of compute, redraws (compute_layout and render)
MaxOther == 1       \* calls of each of set_parent, Frame::set_dirty, resize,
                    \* set_binding, unbind_data, hit_test, on_click,
                    \* cursor moves and get_binding
MaxKids == 2        \* children of the panel of a layout scene

(***************************************************************************)
(* The canvas of the runs.                                                 *)
(***************************************************************************)
CanvasW == 8                      \* Root::new(width, _) of the runs
CanvasH == 6                      \* Root::new(_, height) of the runs

VARIABLES
    capsules,           \* Root.capsules: Vec<CapsuleSlot>
    capsule_free_list,  \* Root.capsule_free_list: VecDeque<usize>
    spaces,             \* Root.spaces: Vec<Option<Space>>
    styles,             \* Root.styles: Vec<Option<Style>>
    dirties,            \* Root.dirties: HashSet<CapsuleRef>
    allocator,          \* Root.allocator: [slots, free_list]
    issued,             \* history: every CapsuleRef handed out so far
    removed,            \* history: every CapsuleRef remove_frame has freed
    last,               \* history: the last call and what it saw
    calls,              \* history: number of calls made, per operation
    restyled,           \* history: handles update_style changed since the
                        \* last compute
    laid,               \* history: the spaces as the first compute of the
                        \* current run of layouts of an unchanged tree left
                        \* them
    aborted,            \* TRUE once a call overflowed the stack or panicked
    elements,           \* deka Context.elements: HashMap<CapsuleRef, element>
    click_callbacks,    \* deka Context.click_callbacks: HashMap<CapsuleRef, _>
    mouse_pos,          \* deka Context.mouse_pos, in halves of a pixel
    mouse_pressed       \* deka Context.mouse_pressed

rootvars == <<capsules, capsule_free_list, spaces, styles, dirties, allocator>>
contextvars == <<elements, click_callbacks, mouse_pos, mouse_pressed>>
vars == <<capsules, capsule_free_list, spaces, styles, dirties, allocator,
          issued, removed, last, calls, restyled, laid, aborted,
          elements, click_callbacks, mouse_pos, mouse_pressed>>

(***************************************************************************)
(* Option values.                                                          *)
(***************************************************************************)
NoneU == [some |-> FALSE, v |-> 0]
SomeU(n) == [some |-> TRUE, v |-> n]

NoRef == [some |-> FALSE, id |-> 0, generation |-> 0]
SomeRef(h) == [some |-> TRUE, id |-> h.id, generation |-> h.generation]
RefOf(o) == [id |-> o.id, generation |-> o.generation]

Max(a, b) == IF a >= b THEN a ELSE b
SatSub(a, b) == IF a >= b THEN a - b ELSE 0      \* u32::saturating_sub

(***************************************************************************)
(* sizing.rs, position.rs: the value types of a Style.                     *)
(***************************************************************************)
Pixel(n) == [k |-> "Pixel", v |-> n]
Percent(p) == [k |-> "Percent", v |-> p]     \* p in hundredths
Fill == [k |-> "Fill", v |-> 0]
Fit == [k |-> "Fit", v |-> 0]
Auto == [k |-> "Auto", v |-> 0]
SizeSpecDefault == Pixel(0)

is_fill(s) == s.k = "Fill"
is_percent(s) == s.k = "Percent"
is_auto(s) == s.k = "Auto"

\* a resolve_size that lets Fit take the offered extent, as Fill does
resolve_size_fit_takes_offer(s, parent_value) ==
    CASE s.k = "Pixel" -> SomeU(s.v)
      [] s.k = "Percent" -> SomeU((s.v * parent_value) \div 100)
      [] s.k \in {"Fill", "Fit"} -> SomeU(parent_value)
      [] OTHER -> NoneU

\* SizeSpec::resolve_size: Some(extent) for Pixel, Percent and Fill.
resolve_size(s, parent_value) ==
    CASE s.k = "Pixel" -> SomeU(s.v)
      [] s.k = "Percent" -> SomeU((s.v * parent_value) \div 100)
      [] s.k = "Fill" -> SomeU(parent_value)
      [] OTHER -> NoneU

PositionAuto == [k |-> "Auto", x |-> 0, y |-> 0]
PositionFixed(px, py) == [k |-> "Fixed", x |-> px, y |-> py]

Sides(l, r, t, b) == [left |-> l, right |-> r, top |-> t, bottom |-> b]

(***************************************************************************)
(* Space, Style, Capsule, CapsuleSlot.                                     *)
(***************************************************************************)
SpaceZero ==
    [some |-> TRUE, x |-> 0, y |-> 0, width |-> NoneU, height |-> NoneU]
NoSpace ==
    [some |-> FALSE, x |-> 0, y |-> 0, width |-> NoneU, height |-> NoneU]
RootSpace(w, h) ==
    [some |-> TRUE, x |-> 0, y |-> 0, width |-> SomeU(w), height |-> SomeU(h)]

StyleDefault ==
    [some |-> TRUE,
     width |-> SizeSpecDefault, height |-> SizeSpecDefault,
     padding |-> Sides(0, 0, 0, 0), margin |-> Sides(0, 0, 0, 0),
     border |-> [size |-> 0],
     flex_grow |-> 0, flex_shrink |-> 1,
     layout |-> "Flex", flow |-> "Row", gap |-> 0,
     position |-> PositionAuto,
     intrinsic_width |-> NoneU, intrinsic_height |-> NoneU,
     z_index |-> 0]
NoStyle == [StyleDefault EXCEPT !.some = FALSE]

NoCapsule ==
    [some |-> FALSE, space_ref |-> 0, parent_ref |-> NoRef, style_ref |-> 0,
     data_ref |-> NoneU, children |-> <<>>]

At(vec, i) == vec[i + 1]
InRange(vec, i) == i >= 0 /\ i < Len(vec)

(***************************************************************************)
(* boxalloc.rs: the data arena.  A slot holds Some(payload) or None.  A     *)
(* payload is a Box<dyn Any>: a value together with its type.              *)
(***************************************************************************)
Payload(type, value) == [type |-> type, value |-> value]
NoPayload == Payload("", 0)
NoData == [some |-> FALSE, v |-> NoPayload]
SomeData(data) == [some |-> TRUE, v |-> data]

AllocatorNew == [slots |-> <<>>, free_list |-> <<>>]

alloc(A, data) ==
    IF A.free_list # <<>>
    THEN LET recycled_id == Head(A.free_list) IN
         [allocator |-> [slots |-> [A.slots EXCEPT ![recycled_id + 1] = SomeData(data)],
                         free_list |-> Tail(A.free_list)],
          id |-> recycled_id]
    ELSE [allocator |-> [slots |-> Append(A.slots, SomeData(data)),
                         free_list |-> A.free_list],
          id |-> Len(A.slots)]

dealloc(A, id) ==
    IF InRange(A.slots, id) /\ At(A.slots, id).some
    THEN [allocator |-> [slots |-> [A.slots EXCEPT ![id + 1] = NoData],
                         free_list |-> Append(A.free_list, id)],
          ok |-> TRUE]
    ELSE [allocator |-> A, ok |-> FALSE]

\* a lookup that skips the runtime type check
get_any_type(A, id, T) ==
    IF InRange(A.slots, id) /\ At(A.slots, id).some
    THEN At(A.slots, id)
    ELSE NoData

\* Allocator::get::<T> and get_mut::<T>: the payload of an occupied slot
\* when it downcasts to T
get(A, id, T) ==
    IF InRange(A.slots, id) /\ At(A.slots, id).some
       /\ At(A.slots, id).v.type = T
    THEN At(A.slots, id)
    ELSE NoData

(***************************************************************************)
(* The Root as one value, for the operators that thread it.                *)
(***************************************************************************)
Root ==
    [capsules |-> capsules, capsule_free_list |-> capsule_free_list,
     spaces |-> spaces, styles |-> styles, dirties |-> dirties,
     allocator |-> allocator]

RootNew(width, height) ==
    [capsules |-> <<>>, capsule_free_list |-> <<>>,
     spaces |-> <<RootSpace(width, height)>>, styles |-> <<>>,
     dirties |-> {}, allocator |-> AllocatorNew]

\* Root::get_capsule: the slot's capsule when the generations agree.
get_capsule(caps, frame_ref) ==
    IF InRange(caps, frame_ref.id)
       /\ At(caps, frame_ref.id).generation = frame_ref.generation
    THEN At(caps, frame_ref.id).capsule
    ELSE NoCapsule

\* get_capsule_mut without the generation test
get_capsule_mut_any_generation(caps, frame_ref) ==
    IF InRange(caps, frame_ref.id)
    THEN At(caps, frame_ref.id).capsule
    ELSE NoCapsule

\* Root::get_capsule_mut
get_capsule_mut(caps, frame_ref) ==
    IF InRange(caps, frame_ref.id)
       /\ At(caps, frame_ref.id).generation = frame_ref.generation
    THEN At(caps, frame_ref.id).capsule
    ELSE NoCapsule

SetCapsule(caps, frame_ref, cap) ==
    [caps EXCEPT ![frame_ref.id + 1].capsule = cap]

\* Root::get_space / Root::get_style
get_space(R, frame_ref) ==
    LET cap == get_capsule(R.capsules, frame_ref) IN
    IF cap.some THEN At(R.spaces, cap.space_ref) ELSE NoSpace

get_style(R, frame_ref) ==
    LET cap == get_capsule(R.capsules, frame_ref) IN
    IF cap.some THEN At(R.styles, cap.style_ref) ELSE NoStyle

is_dirty(R) == R.dirties # {}

(***************************************************************************)
(* Root::set_dirty: insert, then walk the parent links until an already    *)
(* dirty parent or a parentless capsule.                                   *)
(***************************************************************************)
RECURSIVE dirty_walk(_, _, _)
dirty_walk(caps, d, current) ==
    LET capsule == get_capsule(caps, current) IN
    IF ~capsule.some \/ ~capsule.parent_ref.some
    THEN d
    ELSE LET parent_ref == RefOf(capsule.parent_ref) IN
         IF parent_ref \in d
         THEN d
         ELSE dirty_walk(caps, d \cup {parent_ref}, parent_ref)

\* set_dirty without the walk up the parent links
set_dirty_only_self(R, capsule_ref) ==
    [R EXCEPT !.dirties = @ \cup {capsule_ref}]

set_dirty(R, capsule_ref) ==
    IF capsule_ref \in R.dirties
    THEN R
    ELSE [R EXCEPT !.dirties =
             dirty_walk(R.capsules, R.dirties \cup {capsule_ref}, capsule_ref)]

(***************************************************************************)
(* Root::unbind_data                                                       *)
(***************************************************************************)
unbind_data(R, frame_ref) ==
    LET capsule == get_capsule_mut(R.capsules, frame_ref) IN
    IF capsule.some /\ capsule.data_ref.some
    THEN LET d == dealloc(R.allocator, capsule.data_ref.v) IN
         [root |-> [R EXCEPT
                      !.capsules = SetCapsule(@, frame_ref,
                                      [capsule EXCEPT !.data_ref = NoneU]),
                      !.allocator = d.allocator],
          ok |-> d.ok]
    ELSE [root |-> R, ok |-> FALSE]

(***************************************************************************)
(* Root::internal_add_frame                                                *)
(***************************************************************************)
\* a pop that takes the newest entry of the free list
pop_back(q) == [v |-> q[Len(q)], rest |-> SubSeq(q, 1, Len(q) - 1)]

\* a pop that hands the oldest entry out and leaves it in the queue
pop_front_keeps(q) == [v |-> Head(q), rest |-> q]

\* VecDeque::pop_front of a non-empty queue: the oldest entry and the rest
pop_front(q) == [v |-> Head(q), rest |-> Tail(q)]

internal_add_frame(R, parent_ref, data) ==
    LET caps == [some |-> TRUE, space_ref |-> Len(R.spaces),
                 parent_ref |-> parent_ref, style_ref |-> Len(R.styles),
                 data_ref |-> data, children |-> <<>>]
        recycle == R.capsule_free_list # <<>>
        new_id == IF recycle THEN pop_front(R.capsule_free_list).v
                  ELSE Len(R.capsules)
        new_generation == IF recycle THEN At(R.capsules, new_id).generation ELSE 0
        new_ref == [id |-> new_id, generation |-> new_generation]
        capsules1 ==
            IF recycle
            THEN [R.capsules EXCEPT ![new_id + 1].capsule = caps]
            ELSE Append(R.capsules, [capsule |-> caps, generation |-> 0])
        parent_capsule ==
            IF parent_ref.some
            THEN get_capsule_mut(capsules1, RefOf(parent_ref))
            ELSE NoCapsule
        capsules2 ==
            IF parent_capsule.some
            THEN SetCapsule(capsules1, RefOf(parent_ref),
                     [parent_capsule EXCEPT !.children = Append(@, new_ref)])
            ELSE capsules1
    IN [root |-> [R EXCEPT
                    !.spaces = Append(@, SpaceZero),
                    !.styles = Append(@, StyleDefault),
                    !.capsules = capsules2,
                    !.capsule_free_list =
                        IF recycle THEN pop_front(@).rest ELSE @],
        frame |-> new_ref]

(***************************************************************************)
(* Root::set_parent                                                        *)
(***************************************************************************)
\* a retain that keeps every element
retain_all(children, r) == children

\* children.retain(|&c| c != r)
retain_ne(children, r) == SelectSeq(children, LAMBDA c : c # r)

set_parent(R, child_ref, new_parent_ref) ==
    LET child0 == get_capsule(R.capsules, child_ref)
        old_parent_ref == IF child0.some THEN child0.parent_ref ELSE NoRef
        old_parent_capsule ==
            IF old_parent_ref.some
            THEN get_capsule_mut(R.capsules, RefOf(old_parent_ref))
            ELSE NoCapsule
        R1 == IF old_parent_ref.some
              THEN set_dirty(
                     IF old_parent_capsule.some
                     THEN [R EXCEPT !.capsules =
                              SetCapsule(@, RefOf(old_parent_ref),
                                  [old_parent_capsule EXCEPT
                                      !.children = retain_ne(@, child_ref)])]
                     ELSE R,
                     RefOf(old_parent_ref))
              ELSE R
        new_parent_capsule == get_capsule_mut(R1.capsules, new_parent_ref)
        R2 == IF new_parent_capsule.some
              THEN [R1 EXCEPT !.capsules =
                       SetCapsule(@, new_parent_ref,
                           [new_parent_capsule EXCEPT
                               !.children = Append(@, child_ref)])]
              ELSE R1
        child_capsule == get_capsule_mut(R2.capsules, child_ref)
        R3 == IF child_capsule.some
              THEN [R2 EXCEPT !.capsules =
                       SetCapsule(@, child_ref,
                           [child_capsule EXCEPT
                               !.parent_ref = SomeRef(new_parent_ref)])]
              ELSE R2
    IN set_dirty(R3, new_parent_ref)

(***************************************************************************)
(* Root::remove_frame.  The call recurses into the children before it      *)
(* frees its own slot, so a call that comes back to a capsule whose        *)
(* removal is still in progress (`active`) repeats itself without end:     *)
(* the recursion never returns and the thread overflows its stack.  The    *)
(* result is [root, ok]; ok = FALSE stands for that outcome.               *)
(***************************************************************************)
\* a free that leaves the slot generation as it is
keep_generation(g) == g

\* u32::wrapping_add(1) of the slot generation: u32::MAX, that is
\* 65535 * 65536 + 65535, wraps to 0
wrapping_add_1(g) ==
    IF g \div 65536 = 65535 /\ g % 65536 = 65535 THEN 0 ELSE g + 1

RECURSIVE remove_frame(_, _, _)
RECURSIVE remove_children(_, _, _)

\* a removal that does not descend into the children
remove_children_none(S, children, active) == S

\* for child_ref in capsule.children.clone() { self.remove_frame(child_ref) }
remove_children(S, children, active) ==
    IF children = <<>> \/ ~S.ok
    THEN S
    ELSE remove_children(remove_frame(S.root, Head(children), active),
                         Tail(children), active)

remove_frame(R, frame_ref, active) ==
    LET capsule == get_capsule_mut(R.capsules, frame_ref) IN
    IF ~capsule.some
    THEN [root |-> R, ok |-> TRUE]
    ELSE IF frame_ref \in active
    THEN [root |-> R, ok |-> FALSE]
    ELSE
    LET S1 == remove_children([root |-> unbind_data(R, frame_ref).root,
                               ok |-> TRUE],
                              capsule.children, active \cup {frame_ref})
        R1 == S1.root
        parent_capsule ==
            IF capsule.parent_ref.some
            THEN get_capsule_mut(R1.capsules, RefOf(capsule.parent_ref))
            ELSE NoCapsule
        R2 == IF parent_capsule.some
              THEN set_dirty(
                     [R1 EXCEPT !.capsules =
                         SetCapsule(@, RefOf(capsule.parent_ref),
                             [parent_capsule EXCEPT
                                 !.children = retain_ne(@, frame_ref)])],
                     RefOf(capsule.parent_ref))
              ELSE R1
        R3 == [R2 EXCEPT
                 !.spaces[capsule.space_ref + 1] = NoSpace,
                 !.styles[capsule.style_ref + 1] = NoStyle,
                 !.dirties = @ \ {frame_ref},
                 !.capsules[frame_ref.id + 1] =
                     [capsule |-> NoCapsule,
                      generation |-> wrapping_add_1(@.generation)],
                 !.capsule_free_list = Append(@, frame_ref.id)]
    IN IF S1.ok THEN [root |-> R3, ok |-> TRUE] ELSE S1

(***************************************************************************)
(* Frame::update_style, Frame::get_style_mut, Frame::set_dirty.  The       *)
(* applier closures of the runs are named; Apply is the closure's body.    *)
(***************************************************************************)
Appliers == {"width_fill", "height_auto", "fit_text", "column"}

Apply(applier, style) ==
    CASE applier = "width_fill" -> [style EXCEPT !.width = Fill]
      [] applier = "height_auto" -> [style EXCEPT !.height = Auto]
      [] applier = "fit_text" ->
            [style EXCEPT !.width = Fit, !.height = Fit,
                          !.intrinsic_width = SomeU(5),
                          !.intrinsic_height = SomeU(2)]
      [] applier = "column" -> [style EXCEPT !.flow = "Column"]
      [] applier = "height_fill" -> [style EXCEPT !.height = Fill]
      [] applier = "width_auto" -> [style EXCEPT !.width = Auto]
      [] applier = "width_3" -> [style EXCEPT !.width = Pixel(3)]
      [] applier = "height_2" -> [style EXCEPT !.height = Pixel(2)]
      [] applier = "grow_1" -> [style EXCEPT !.flex_grow = 1]
      [] applier = "grow_2" -> [style EXCEPT !.flex_grow = 2]
      [] applier = "no_shrink" -> [style EXCEPT !.flex_shrink = 0]
      [] applier = "gap_1" -> [style EXCEPT !.gap = 1]
      [] applier = "pad_1" -> [style EXCEPT !.padding = Sides(1, 1, 1, 1)]
      [] applier = "no_strategy" -> [style EXCEPT !.layout = "NoStrategy"]
      [] applier = "fixed_1_1" -> [style EXCEPT !.position = PositionFixed(1, 1)]
      [] applier = "z_1" -> [style EXCEPT !.z_index = 1]
      [] applier = "margin_2_1" -> [style EXCEPT !.margin = Sides(2, 0, 1, 0)]
      [] applier = "height_half" -> [style EXCEPT !.height = Percent(50)]
      [] applier = "panel" ->
            [style EXCEPT !.layout = "Flex", !.flow = "Column",
                          !.width = Fill, !.height = Fill,
                          !.padding = Sides(20, 20, 20, 20), !.gap = 2]
      [] applier = "label" ->
            [style EXCEPT !.width = Fit, !.height = Fit,
                          !.intrinsic_width = SomeU(100),
                          !.intrinsic_height = SomeU(20)]
      [] applier = "spacer" -> [style EXCEPT !.height = Fill]
      [] applier = "root_panel" ->
            [style EXCEPT !.width = Fill, !.height = Fill,
                          !.layout = "NoStrategy"]
      [] applier = "small_panel" ->
            [StyleDefault EXCEPT !.width = Pixel(3), !.height = Pixel(2)]
      [] applier = "raised_panel" ->
            [StyleDefault EXCEPT !.width = Pixel(3), !.height = Pixel(2),
                                 !.z_index = 1]
      [] applier = "button" ->
            [style EXCEPT !.width = Fit, !.height = Fit,
                          !.padding = Sides(6, 6, 2, 2),
                          !.margin = Sides(0, 0, 4, 4),
                          !.border = [size |-> 2], !.layout = "Flex"]

\* Frame::get_style_mut: the index of the style to mutate, or None.
get_style_mut(R, capsule_ref) ==
    LET capsule == get_capsule_mut(R.capsules, capsule_ref) IN
    IF capsule.some
       /\ InRange(R.styles, capsule.style_ref)
       /\ At(R.styles, capsule.style_ref).some
    THEN SomeU(capsule.style_ref)
    ELSE NoneU

Frame_set_dirty(R, capsule_ref) == set_dirty(R, capsule_ref)

\* update_style that marks the handle dirty whether or not it found a style
Frame_update_style_marks_always(R, capsule_ref, applier) ==
    LET style_mut == get_style_mut(R, capsule_ref) IN
    Frame_set_dirty(
        IF style_mut.some
        THEN [R EXCEPT !.styles[style_mut.v + 1] = Apply(applier, @)]
        ELSE R,
        capsule_ref)

Frame_update_style(R, capsule_ref, applier) ==
    LET style_mut == get_style_mut(R, capsule_ref) IN
    IF style_mut.some
    THEN Frame_set_dirty(
             [R EXCEPT !.styles[style_mut.v + 1] = Apply(applier, @)],
             capsule_ref)
    ELSE R

(***************************************************************************)
(* Root::hit_test: the handles of the occupied slots whose space contains  *)
(* the point, in slot order.  A missing width or height counts as 0.       *)
(***************************************************************************)
unwrap_or_0(o) == IF o.some THEN o.v ELSE 0

\* a test that leaves the right and the bottom edge out
hit_exclusive(R, i, x, y) ==
    LET caps == At(R.capsules, i).capsule
        fs == IF caps.some /\ InRange(R.spaces, caps.space_ref)
              THEN At(R.spaces, caps.space_ref) ELSE NoSpace
    IN /\ fs.some
       /\ x >= fs.x /\ x < fs.x + unwrap_or_0(fs.width)
       /\ y >= fs.y /\ y < fs.y + unwrap_or_0(fs.height)

\* the body of the loop: slot i is occupied and its space contains (x, y)
hit(R, i, x, y) ==
    LET caps == At(R.capsules, i).capsule
        fs == IF caps.some /\ InRange(R.spaces, caps.space_ref)
              THEN At(R.spaces, caps.space_ref) ELSE NoSpace
    IN /\ fs.some
       /\ x >= fs.x /\ x <= fs.x + unwrap_or_0(fs.width)
       /\ y >= fs.y /\ y <= fs.y + unwrap_or_0(fs.height)

hit_test(R, x, y) ==
    LET ids == SelectSeq([i \in 1..Len(R.capsules) |-> i - 1],
                   LAMBDA i : hit(R, i, x, y))
    IN [k \in 1..Len(ids) |->
           [id |-> ids[k], generation |-> At(R.capsules, ids[k]).generation]]

(***************************************************************************)
(* Root::compute_pass_1_measure.  The capsules and styles do not change    *)
(* during compute; the spaces `sp` are threaded through the recursion.     *)
(* The result is [spaces, w, h].                                           *)
(***************************************************************************)
RECURSIVE SumSeq(_)
SumSeq(q) == IF q = <<>> THEN 0 ELSE Head(q) + SumSeq(Tail(q))

RECURSIVE MaxSeq(_)
MaxSeq(q) == IF q = <<>> THEN 0 ELSE Max(Head(q), MaxSeq(Tail(q)))

OuterW(sizes) ==
    [i \in 1..Len(sizes) |-> sizes[i].w + sizes[i].margin.left + sizes[i].margin.right]
OuterH(sizes) ==
    [i \in 1..Len(sizes) |-> sizes[i].h + sizes[i].margin.top + sizes[i].margin.bottom]

\* the gap between n in-flow children: gap * (n - 1), 0 when there is none
TotalGap(gap, n) == IF n > 0 THEN gap * (n - 1) ELSE 0

\* step 3 of pass 1: the desired extent of one axis
desired_size(spec, content, pad_a, pad_b, border_size) ==
    CASE spec.k = "Pixel" -> spec.v
      [] spec.k \in {"Fit", "Auto"} -> content + pad_a + pad_b + border_size * 2
      [] OTHER -> 0

RECURSIVE compute_pass_1_measure(_, _, _)
RECURSIVE measure_children(_, _, _, _)

\* a loop that measures no child
measure_children_none(R, sp, children, sizes) ==
    [spaces |-> sp, sizes |-> sizes]

\* the loop over capsule.children: recurse into every live child, keep the
\* sizes of the Position::Auto ones
measure_children(R, sp, children, sizes) ==
    IF children = <<>>
    THEN [spaces |-> sp, sizes |-> sizes]
    ELSE LET child_ref == Head(children)
             cap == get_capsule(R.capsules, child_ref)
             child_style == IF cap.some THEN At(R.styles, cap.style_ref)
                            ELSE NoStyle
         IN IF ~child_style.some
            THEN measure_children(R, sp, Tail(children), sizes)
            ELSE LET m == compute_pass_1_measure(R, sp, child_ref) IN
                 measure_children(R, m.spaces, Tail(children),
                     IF child_style.position.k = "Auto"
                     THEN Append(sizes, [w |-> m.w, h |-> m.h,
                                         margin |-> child_style.margin])
                     ELSE sizes)

compute_pass_1_measure(R, sp, frame_ref) ==
    LET capsule == get_capsule(R.capsules, frame_ref)
        style == IF capsule.some THEN At(R.styles, capsule.style_ref)
                 ELSE NoStyle
    IN
    IF ~style.some
    THEN [spaces |-> sp, w |-> 0, h |-> 0]
    ELSE
    LET mc == measure_children(R, sp, capsule.children, <<>>)
        in_flow_child_sizes == mc.sizes
        n == Len(in_flow_child_sizes)
        row == style.layout = "Flex" /\ style.flow = "Row"
        column == style.layout = "Flex" /\ style.flow = "Column"
        content_w ==
            IF capsule.children = <<>>
            THEN (IF style.intrinsic_width.some THEN style.intrinsic_width.v ELSE 0)
            ELSE IF row
            THEN SumSeq(OuterW(in_flow_child_sizes)) + TotalGap(style.gap, n)
            ELSE MaxSeq(OuterW(in_flow_child_sizes))
        content_h ==
            IF capsule.children = <<>>
            THEN (IF style.intrinsic_height.some THEN style.intrinsic_height.v ELSE 0)
            ELSE IF column
            THEN SumSeq(OuterH(in_flow_child_sizes)) + TotalGap(style.gap, n)
            ELSE MaxSeq(OuterH(in_flow_child_sizes))
        desired_w == desired_size(style.width, content_w, style.padding.left,
                                  style.padding.right, style.border.size)
        desired_h == desired_size(style.height, content_h, style.padding.top,
                                  style.padding.bottom, style.border.size)
        sp1 == IF At(mc.spaces, capsule.space_ref).some
               THEN [mc.spaces EXCEPT ![capsule.space_ref + 1].width = SomeU(desired_w),
                                      ![capsule.space_ref + 1].height = SomeU(desired_h)]
               ELSE mc.spaces
    IN [spaces |-> sp1, w |-> desired_w, h |-> desired_h]

(***************************************************************************)
(* Root::compute_pass_2_layout.  S is [spaces, ok]; ok = FALSE stands for  *)
(* a panic of an Option::unwrap on a missing width or height.              *)
(*                                                                         *)
(* The f32 arithmetic of the grow and shrink branches is evaluated         *)
(* exactly and truncated as `as u32` truncates (negative values give 0).   *)
(* For base sizes up to 12, flex_grow in 0..2 and flex_shrink in 0..1 the  *)
(* rounded f32 evaluation and the exact one truncate to the same integer.  *)
(***************************************************************************)
\* base + flex_grow * (remaining / total_grow_factor), as u32
grow_size(base, flex_grow, remaining, total_grow_factor) ==
    IF total_grow_factor > 0
    THEN base + (flex_grow * remaining) \div total_grow_factor
    ELSE base

\* base - (flex_shrink * base) * (overflow / total_weighted_shrink), as u32
shrink_size(base, flex_shrink, overflow_amount, total_weighted_shrink) ==
    IF total_weighted_shrink > 0
    THEN LET num == base * total_weighted_shrink
                      - flex_shrink * base * overflow_amount
         IN IF num <= 0 THEN 0 ELSE num \div total_weighted_shrink
    ELSE base

\* the main-axis extent handed to an in-flow child of a Flex container
final_child_size(base, child_style, remaining, total_grow_factor, total_weighted_shrink) ==
    IF remaining > 0
    THEN grow_size(base, child_style.flex_grow, remaining, total_grow_factor)
    ELSE IF remaining < 0
    THEN shrink_size(base, child_style.flex_shrink, 0 - remaining,
                     total_weighted_shrink)
    ELSE base

\* a child the loops of pass 2 do not skip: live, with a style and a space
ChildPresent(R, sp, child_ref) ==
    LET cap == get_capsule(R.capsules, child_ref) IN
    /\ cap.some
    /\ At(R.styles, cap.style_ref).some
    /\ At(sp, cap.space_ref).some

ChildStyle(R, child_ref) ==
    At(R.styles, get_capsule(R.capsules, child_ref).style_ref)
ChildSpace(R, sp, child_ref) ==
    At(sp, get_capsule(R.capsules, child_ref).space_ref)

\* a pre-pass test that takes every child for an in-flow child
is_in_flow_always(child_style) == TRUE

\* child_style.position == Position::Auto, the test of the pre-pass
is_in_flow(child_style) == child_style.position.k = "Auto"

\* step 5, the pre-pass over the in-flow children
PrePass(R, sp, capsule, style, content_w, content_h) ==
    LET in_flow_children ==
            SelectSeq(capsule.children,
                LAMBDA c : ChildPresent(R, sp, c)
                           /\ is_in_flow(ChildStyle(R, c)))
        n == Len(in_flow_children)
        row == style.flow = "Row"
        MainSpec(c) == IF row THEN ChildStyle(R, c).width ELSE ChildStyle(R, c).height
        MainBase(c) == IF row THEN ChildSpace(R, sp, c).width.v
                       ELSE ChildSpace(R, sp, c).height.v
        total_base ==
            SumSeq([i \in 1..n |->
                IF ~is_fill(MainSpec(in_flow_children[i]))
                   /\ ~is_percent(MainSpec(in_flow_children[i]))
                THEN MainBase(in_flow_children[i]) ELSE 0])
        total_grow_factor ==
            SumSeq([i \in 1..n |-> ChildStyle(R, in_flow_children[i]).flex_grow])
        total_weighted_shrink ==
            SumSeq([i \in 1..n |->
                ChildStyle(R, in_flow_children[i]).flex_shrink
                  * MainBase(in_flow_children[i])])
        content_main == IF row THEN content_w ELSE content_h
    IN [unwrapped |-> \A i \in 1..n :
                        /\ ChildSpace(R, sp, in_flow_children[i]).width.some
                        /\ ChildSpace(R, sp, in_flow_children[i]).height.some,
        remaining |-> content_main - total_base - TotalGap(style.gap, n),
        total_grow_factor |-> total_grow_factor,
        total_weighted_shrink |-> total_weighted_shrink]

RECURSIVE compute_pass_2_layout(_, _, _, _, _, _, _)
RECURSIVE layout_children(_, _, _, _, _, _)

\* step 7, the loop over children_to_layout with the cursor
layout_children(R, S, children, ctx, current_x, current_y) ==
    IF children = <<>> \/ ~S.ok
    THEN S
    ELSE
    LET child_ref == Head(children)
        rest == Tail(children)
    IN
    IF ~ChildPresent(R, S.spaces, child_ref)
    THEN layout_children(R, S, rest, ctx, current_x, current_y)
    ELSE
    LET child_capsule == get_capsule(R.capsules, child_ref)
        child_style == ChildStyle(R, child_ref)
        child_space == ChildSpace(R, S.spaces, child_ref)
        style == ctx.style
    IN
    IF ~child_space.width.some \/ ~child_space.height.some
    THEN [S EXCEPT !.ok = FALSE]
    ELSE IF child_style.position.k = "Fixed"
    THEN layout_children(R,
             compute_pass_2_layout(R, S, child_ref, ctx.content_x,
                 ctx.content_y, ctx.content_w, ctx.content_h),
             rest, ctx, current_x, current_y)
    ELSE
    LET child_desired_w == child_space.width.v
        child_desired_h == child_space.height.v
        m == child_style.margin
        flex == style.layout = "Flex"
        row == flex /\ style.flow = "Row"
        column == flex /\ style.flow = "Column"
        child_given_x == IF flex THEN current_x + m.left ELSE current_x
        child_given_y == IF flex THEN current_y + m.top ELSE current_y
        child_given_w ==
            IF row
            THEN (IF is_percent(child_style.width) THEN ctx.content_w
                  ELSE final_child_size(child_desired_w, child_style,
                           ctx.remaining, ctx.total_grow_factor,
                           ctx.total_weighted_shrink))
            ELSE IF column
            THEN SatSub(ctx.content_w, m.left + m.right)
            ELSE ctx.content_w
        child_given_h ==
            IF row
            THEN SatSub(ctx.content_h, m.top + m.bottom)
            ELSE IF column
            THEN (IF is_percent(child_style.height) THEN ctx.content_h
                  ELSE final_child_size(child_desired_h, child_style,
                           ctx.remaining, ctx.total_grow_factor,
                           ctx.total_weighted_shrink))
            ELSE child_desired_h
        S1 == compute_pass_2_layout(R, S, child_ref, child_given_x,
                  child_given_y, child_given_w, child_given_h)
        i == child_capsule.space_ref + 1
    IN
    IF ~S1.ok
    THEN S1
    ELSE IF ~S1.spaces[i].some
    THEN layout_children(R, S1, rest, ctx, current_x, current_y)
    ELSE
    LET sp2 == IF row /\ is_auto(child_style.height)
               THEN [S1.spaces EXCEPT ![i].height = SomeU(ctx.content_h)]
               ELSE IF column /\ is_auto(child_style.width)
               THEN [S1.spaces EXCEPT ![i].width = SomeU(ctx.content_w)]
               ELSE S1.spaces
        S2 == [S1 EXCEPT !.spaces = sp2]
    IN
    IF flex /\ (~sp2[i].width.some \/ ~sp2[i].height.some)
    THEN [S2 EXCEPT !.ok = FALSE]
    ELSE layout_children(R, S2, rest, ctx,
             IF row THEN current_x + sp2[i].width.v + style.gap ELSE current_x,
             IF column THEN current_y + sp2[i].height.v + style.gap ELSE current_y)

compute_pass_2_layout(R, S, frame_ref, given_x, given_y, given_width, given_height) ==
    LET capsule == get_capsule(R.capsules, frame_ref)
        style == IF capsule.some THEN At(R.styles, capsule.style_ref)
                 ELSE NoStyle
        space == IF capsule.some THEN At(S.spaces, capsule.space_ref)
                 ELSE NoSpace
    IN
    IF ~S.ok \/ ~style.some \/ ~space.some
    THEN S
    ELSE IF ~space.width.some \/ ~space.height.some
    THEN [S EXCEPT !.ok = FALSE]
    ELSE
    LET desired_w == space.width.v
        desired_h == space.height.v
        rw == resolve_size(style.width, given_width)
        rh == resolve_size(style.height, given_height)
        final_w == IF rw.some THEN rw.v ELSE desired_w
        final_h == IF rh.some THEN rh.v ELSE desired_h
        final_x == IF style.position.k = "Fixed"
                   THEN given_x + style.position.x ELSE given_x
        final_y == IF style.position.k = "Fixed"
                   THEN given_y + style.position.y ELSE given_y
        sp1 == [S.spaces EXCEPT ![capsule.space_ref + 1] =
                  [some |-> TRUE, x |-> final_x, y |-> final_y,
                   width |-> SomeU(final_w), height |-> SomeU(final_h)]]
        content_x == final_x + style.padding.left + style.border.size
        content_y == final_y + style.padding.top + style.border.size
        content_w == SatSub(final_w, style.padding.left + style.padding.right
                                       + style.border.size * 2)
        content_h == SatSub(final_h, style.padding.top + style.padding.bottom
                                       + style.border.size * 2)
        pre == PrePass(R, sp1, capsule, style, content_w, content_h)
        ctx == [style |-> style,
                content_x |-> content_x, content_y |-> content_y,
                content_w |-> content_w, content_h |-> content_h,
                remaining |-> pre.remaining,
                total_grow_factor |-> pre.total_grow_factor,
                total_weighted_shrink |-> pre.total_weighted_shrink]
    IN IF ~pre.unwrapped
       THEN [spaces |-> sp1, ok |-> FALSE]
       ELSE layout_children(R, [spaces |-> sp1, ok |-> TRUE],
                capsule.children, ctx, content_x, content_y)

(***************************************************************************)
(* Root::compute and Root::resize.  The result of compute is [root, ok].   *)
(***************************************************************************)
\* the handles of the parentless capsules, in slot order
top_level_capsules(caps) ==
    LET ids == SelectSeq([i \in 1..Len(caps) |-> i - 1],
                   LAMBDA i : At(caps, i).capsule.some
                              /\ ~At(caps, i).capsule.parent_ref.some)
    IN [k \in 1..Len(ids) |->
           [id |-> ids[k], generation |-> At(caps, ids[k]).generation]]

RECURSIVE layout_trees(_, _, _, _, _)
layout_trees(R, S, tops, root_w, root_h) ==
    IF tops = <<>> \/ ~S.ok
    THEN S
    ELSE LET m == compute_pass_1_measure(R, S.spaces, Head(tops)) IN
         layout_trees(R,
             compute_pass_2_layout(R, [spaces |-> m.spaces, ok |-> TRUE],
                 Head(tops), 0, 0, root_w, root_h),
             Tail(tops), root_w, root_h)

\* the Root compute leaves: the dirty set emptied, the spaces as laid out
computed(R, S) ==
    [root |-> [R EXCEPT !.dirties = {}, !.spaces = S.spaces], ok |-> S.ok]

compute_always(R) ==
    LET root_space == At(R.spaces, 0)
        root_w == IF root_space.width.some THEN root_space.width.v ELSE 0
        root_h == IF root_space.height.some THEN root_space.height.v ELSE 0
    IN computed(R,
           layout_trees([R EXCEPT !.dirties = {}],
               [spaces |-> R.spaces, ok |-> TRUE],
               top_level_capsules(R.capsules), root_w, root_h))

\* compute without the early return on an empty dirty set
compute_no_skip(R) == compute_always(R)

compute(R) ==
    IF R.dirties = {}
    THEN [root |-> R, ok |-> TRUE]
    ELSE compute_always(R)

RECURSIVE set_dirty_all(_, _)
set_dirty_all(R, refs) ==
    IF refs = <<>> THEN R
    ELSE set_dirty_all(set_dirty(R, Head(refs)), Tail(refs))

\* a resize that stores the canvas size and marks nothing dirty
resize_marks_nothing(R, new_width, new_height) ==
    [R EXCEPT !.spaces[1].width = SomeU(new_width),
              !.spaces[1].height = SomeU(new_height)]

\* a resize that marks the trees dirty and keeps the old canvas size
resize_keeps_canvas(R, new_width, new_height) ==
    set_dirty_all(R, top_level_capsules(R.capsules))

resize(R, new_width, new_height) ==
    set_dirty_all(
        [R EXCEPT !.spaces[1].width = SomeU(new_width),
                  !.spaces[1].height = SomeU(new_height)],
        top_level_capsules(R.capsules))

(***************************************************************************)
(* The state machine: one action per public operation of Root and Frame.   *)
(* A caller can only pass a CapsuleRef it was handed (the fields of        *)
(* CapsuleRef are private), live or stale, and a DataRef the arena         *)
(* returned.                                                               *)
(***************************************************************************)
NoHandle == [id |-> 0, generation |-> 0]

LastNone ==
    [op |-> "new", ref |-> NoHandle, live |-> FALSE,
     ref2 |-> NoHandle, live2 |-> FALSE, applier |-> "", ran |-> FALSE,
     again |-> FALSE, freed |-> {}, restyled |-> {}, old |-> NoRef,
     x |-> 0, y |-> 0, hits |-> <<>>, width |-> 0, height |-> 0,
     pressed |-> FALSE, invoked |-> <<>>, sorted |-> <<>>, commands |-> <<>>,
     index |-> 0, type |-> "", data |-> NoPayload, got |-> NoData,
     ok |-> FALSE]

CallsNone ==
    [add |-> 0, remove |-> 0, reparent |-> 0, style |-> 0, mark |-> 0,
     compute |-> 0, resize |-> 0, bind |-> 0, unbind |-> 0, hit |-> 0,
     on_click |-> 0, cursor |-> 0, click |-> 0, render |-> 0,
     get |-> 0]

Total(c) ==
    c.add + c.remove + c.reparent + c.style + c.mark + c.compute + c.resize
      + c.bind + c.unbind + c.hit + c.on_click + c.cursor + c.click
      + c.render + c.get

NotLaid == [valid |-> FALSE, spaces |-> <<>>]

IsLive(caps, h) == get_capsule(caps, h).some

LiveRefs(caps) ==
    {[id |-> i - 1, generation |-> caps[i].generation] :
        i \in {j \in 1..Len(caps) : caps[j].capsule.some}}

DataArgs == {NoneU} \cup {SomeU(d) : d \in 0..(Len(allocator.slots) - 1)}

CanvasSizes == {<<CanvasW, CanvasH>>, <<CanvasW - 3, CanvasH>>}

Install(R) ==
    /\ capsules' = R.capsules
    /\ capsule_free_list' = R.capsule_free_list
    /\ spaces' = R.spaces
    /\ styles' = R.styles
    /\ dirties' = R.dirties
    /\ allocator' = R.allocator

\* a Root used on its own: no Context holds it
NoContext ==
    /\ elements = {}
    /\ click_callbacks = {}
    /\ mouse_pos = [x |-> 0, y |-> 0]
    /\ mouse_pressed = FALSE

Init ==
    /\ NoContext
    /\ capsules = RootNew(CanvasW, CanvasH).capsules
    /\ capsule_free_list = RootNew(CanvasW, CanvasH).capsule_free_list
    /\ spaces = RootNew(CanvasW, CanvasH).spaces
    /\ styles = RootNew(CanvasW, CanvasH).styles
    /\ dirties = RootNew(CanvasW, CanvasH).dirties
    /\ allocator = RootNew(CanvasW, CanvasH).allocator
    /\ issued = {}
    /\ removed = {}
    /\ last = LastNone
    /\ calls = CallsNone
    /\ restyled = {}
    /\ laid = NotLaid
    /\ aborted = FALSE

AddFrame ==
    /\ ~aborted /\ Total(calls) < MaxCalls /\ calls.add < MaxAdds
    /\ \E data \in DataArgs :
         LET r == internal_add_frame(Root, NoRef, data) IN
         /\ Install(r.root)
         /\ issued' = issued \cup {r.frame}
         /\ last' = [LastNone EXCEPT !.op = "add_frame", !.ref = r.frame,
                                     !.live = TRUE]
    /\ UNCHANGED contextvars
    /\ calls' = [calls EXCEPT !.add = @ + 1]
    /\ laid' = NotLaid
    /\ UNCHANGED <<removed, restyled, aborted>>

AddFrameChild ==
    /\ ~aborted /\ Total(calls) < MaxCalls /\ calls.add < MaxAdds
    /\ \E to \in issued, data \in DataArgs :
         LET r == internal_add_frame(Root, SomeRef(to), data) IN
         /\ Install(r.root)
         /\ issued' = issued \cup {r.frame}
         /\ last' = [LastNone EXCEPT !.op = "add_frame_child",
                                     !.ref = r.frame, !.live = TRUE,
                                     !.ref2 = to,
                                     !.live2 = IsLive(capsules, to)]
    /\ UNCHANGED contextvars
    /\ calls' = [calls EXCEPT !.add = @ + 1]
    /\ laid' = NotLaid
    /\ UNCHANGED <<removed, restyled, aborted>>

RemoveFrame ==
    /\ ~aborted /\ Total(calls) < MaxCalls /\ calls.remove < MaxRemoves
    /\ \E frame_ref \in issued :
         LET r == remove_frame(Root, frame_ref, {}) IN
         /\ IF r.ok THEN Install(r.root) ELSE UNCHANGED rootvars
         /\ aborted' = ~r.ok
         /\ removed' = IF r.ok
                       THEN removed \cup (LiveRefs(capsules) \ LiveRefs(r.root.capsules))
                       ELSE removed
         /\ last' = [LastNone EXCEPT
                       !.op = "remove_frame", !.ref = frame_ref,
                       !.live = IsLive(capsules, frame_ref),
                       !.freed = IF r.ok
                                 THEN LiveRefs(capsules) \ LiveRefs(r.root.capsules)
                                 ELSE {}]
    /\ UNCHANGED contextvars
    /\ calls' = [calls EXCEPT !.remove = @ + 1]
    /\ laid' = NotLaid
    /\ UNCHANGED <<issued, restyled>>

SetParent ==
    /\ ~aborted /\ Total(calls) < MaxCalls /\ calls.reparent < MaxOther
    /\ \E child \in issued, new_parent \in issued :
         /\ Install(set_parent(Root, child, new_parent))
         /\ last' = [LastNone EXCEPT
                       !.op = "set_parent", !.ref = child,
                       !.live = IsLive(capsules, child),
                       !.ref2 = new_parent,
                       !.live2 = IsLive(capsules, new_parent),
                       !.old = get_capsule(capsules, child).parent_ref]
    /\ UNCHANGED contextvars
    /\ calls' = [calls EXCEPT !.reparent = @ + 1]
    /\ laid' = NotLaid
    /\ UNCHANGED <<issued, removed, restyled, aborted>>

UpdateStyle ==
    /\ ~aborted /\ Total(calls) < MaxCalls /\ calls.style < MaxStyleOps
    /\ \E frame \in issued, applier \in Appliers :
         /\ Install(Frame_update_style(Root, frame, applier))
         /\ restyled' = IF IsLive(capsules, frame)
                         THEN restyled \cup {frame} ELSE restyled
         /\ last' = [LastNone EXCEPT
                       !.op = "update_style", !.ref = frame,
                       !.live = IsLive(capsules, frame),
                       !.applier = applier]
    /\ UNCHANGED contextvars
    /\ calls' = [calls EXCEPT !.style = @ + 1]
    /\ laid' = NotLaid
    /\ UNCHANGED <<issued, removed, aborted>>

SetDirty ==
    /\ ~aborted /\ Total(calls) < MaxCalls /\ calls.mark < MaxOther
    /\ \E frame \in issued :
         /\ Install(Frame_set_dirty(Root, frame))
         /\ last' = [LastNone EXCEPT
                       !.op = "set_dirty", !.ref = frame,
                       !.live = IsLive(capsules, frame)]
    /\ UNCHANGED contextvars
    /\ calls' = [calls EXCEPT !.mark = @ + 1]
    /\ laid' = NotLaid
    /\ UNCHANGED <<issued, removed, restyled, aborted>>

Compute ==
    /\ ~aborted /\ Total(calls) < MaxCalls /\ calls.compute < MaxComputes
    /\ \E r \in {compute(Root)} :
         /\ IF r.ok THEN Install(r.root) ELSE UNCHANGED rootvars
         /\ aborted' = ~r.ok
         /\ laid' = IF r.ok /\ ~laid.valid
                     THEN [valid |-> TRUE, spaces |-> r.root.spaces]
                     ELSE laid
         /\ last' = [LastNone EXCEPT !.op = "compute",
                                     !.ran = is_dirty(Root),
                                     !.again = laid.valid,
                                     !.restyled = restyled]
    /\ UNCHANGED contextvars
    /\ calls' = [calls EXCEPT !.compute = @ + 1]
    /\ restyled' = {}
    /\ UNCHANGED <<issued, removed>>

Resize ==
    /\ ~aborted /\ Total(calls) < MaxCalls /\ calls.resize < MaxOther
    /\ \E size \in CanvasSizes :
         /\ Install(resize(Root, size[1], size[2]))
         /\ laid' = IF At(spaces, 0).width = SomeU(size[1])
                        /\ At(spaces, 0).height = SomeU(size[2])
                     THEN laid ELSE NotLaid
         /\ last' = [LastNone EXCEPT !.op = "resize", !.width = size[1],
                                     !.height = size[2]]
    /\ UNCHANGED contextvars
    /\ calls' = [calls EXCEPT !.resize = @ + 1]
    /\ UNCHANGED <<issued, removed, restyled, aborted>>

SetBinding ==
    /\ ~aborted /\ Total(calls) < MaxCalls /\ calls.bind < MaxOther
    /\ Install([Root EXCEPT !.allocator = alloc(@, Payload("Buffer", 0)).allocator])
    /\ last' = [LastNone EXCEPT !.op = "set_binding"]
    /\ UNCHANGED contextvars
    /\ calls' = [calls EXCEPT !.bind = @ + 1]
    /\ laid' = NotLaid
    /\ UNCHANGED <<issued, removed, restyled, aborted>>

UnbindData ==
    /\ ~aborted /\ Total(calls) < MaxCalls /\ calls.unbind < MaxOther
    /\ \E frame_ref \in issued :
         /\ Install(unbind_data(Root, frame_ref).root)
         /\ last' = [LastNone EXCEPT
                       !.op = "unbind_data", !.ref = frame_ref,
                       !.live = IsLive(capsules, frame_ref)]
    /\ UNCHANGED contextvars
    /\ calls' = [calls EXCEPT !.unbind = @ + 1]
    /\ laid' = NotLaid
    /\ UNCHANGED <<issued, removed, restyled, aborted>>

Next ==
    \/ AddFrame
    \/ AddFrameChild
    \/ RemoveFrame
    \/ SetParent
    \/ UpdateStyle
    \/ SetDirty
    \/ Compute
    \/ Resize
    \/ SetBinding
    \/ UnbindData

Spec == Init /\ [][Next]_vars

(***************************************************************************)
(* The layout scenes: a second specification that starts from a Root on    *)
(* which a panel with up to MaxKids children has been built and styled     *)
(* through add_frame, add_frame_child and Frame::update_style, and then    *)
(* runs compute, resize and hit_test on it.  A style is given as the       *)
(* sequence of appliers update_style is called with.                       *)
(***************************************************************************)
PanelStyles ==
    {<<"width_fill", "height_fill">>,
     <<"width_fill", "height_fill", "column">>,
     <<"width_fill", "height_fill", "gap_1">>,
     <<"width_fill", "height_fill", "pad_1", "column">>,
     <<"width_fill", "height_fill", "no_strategy">>,
     <<"width_fill", "height_fill", "fixed_1_1">>,
     <<"fit_text">>}

KidStyles ==
    {<<"width_fill">>,
     <<"width_fill", "grow_1">>,
     <<"width_3", "height_2", "grow_1", "no_shrink", "z_1">>,
     <<"width_auto", "height_fill", "grow_2">>,
     <<"fit_text", "grow_1">>,
     <<"fit_text", "fixed_1_1">>}

\* the styles of n kids: any style for the first kid, and one style, any,
\* for all the kids after it
KidLists(n) ==
    IF n = 0 THEN {<<>>}
    ELSE {<<k>> \o [i \in 1..(n - 1) |-> others] :
             k \in KidStyles, others \in KidStyles}

\* the example of the specification: a panel, a label and a spacer on an
\* 800 x 600 canvas
ExampleKids == <<(<<"label">>), (<<"spacer">>)>>

\* the points queried: left of the canvas, the right and bottom edge of a
\* 3 x 2 capsule at the origin, the right edge of the canvas, below it
HitPoints == {<<-1, 0>>, <<3, 2>>, <<CanvasW, 0>>, <<3, CanvasH + 1>>}

RECURSIVE apply_all(_, _, _)
apply_all(R, capsule_ref, appliers) ==
    IF appliers = <<>> THEN R
    ELSE apply_all(Frame_update_style(R, capsule_ref, Head(appliers)),
                   capsule_ref, Tail(appliers))

\* a child created under `parent` and styled
add_kid(R, parent, kid, style) ==
    apply_all(internal_add_frame(R, SomeRef(parent), NoneU).root, kid, style)

RECURSIVE add_kids(_, _, _)
add_kids(R, parent, kids) ==
    IF kids = <<>> THEN R
    ELSE add_kids(add_kid(R, parent,
                      internal_add_frame(R, SomeRef(parent), NoneU).frame,
                      Head(kids)),
                  parent, Tail(kids))

Scene(width, height, panel, kids) ==
    add_kids(apply_all(internal_add_frame(RootNew(width, height), NoRef, NoneU).root,
                       [id |-> 0, generation |-> 0], panel),
             [id |-> 0, generation |-> 0], kids)

\* a scene whose first child was removed after the scene was built
SceneWithRemoval(width, height, panel, kids) ==
    remove_frame(Scene(width, height, panel, <<(<<"width_fill">>)>> \o kids),
                 [id |-> 1, generation |-> 0], {}).root

Scenes ==
    {Scene(CanvasW, CanvasH, panel, kids) :
        panel \in PanelStyles,
        kids \in UNION {KidLists(n) : n \in 0..MaxKids}}
      \cup {SceneWithRemoval(CanvasW, CanvasH,
                              <<"width_fill", "height_fill">>, kids) :
                kids \in UNION {KidLists(n) : n \in 0..(MaxKids - 1)}}
      \cup {Scene(800, 600, <<"panel">>, ExampleKids)}

\* the handles of the earlier generations of the slots: issued and freed
FreedRefs(caps) ==
    UNION {{[id |-> i - 1, generation |-> g] :
               g \in 0..(caps[i].generation - 1)} : i \in 1..Len(caps)}

LayoutInit ==
    /\ NoContext
    /\ \E R \in Scenes :
          /\ capsules = R.capsules
          /\ capsule_free_list = R.capsule_free_list
          /\ spaces = R.spaces
          /\ styles = R.styles
          /\ dirties = R.dirties
          /\ allocator = R.allocator
          /\ issued = LiveRefs(R.capsules) \cup FreedRefs(R.capsules)
          /\ removed = FreedRefs(R.capsules)
    /\ last = LastNone
    /\ calls = CallsNone
    /\ restyled = {}
    /\ laid = NotLaid
    /\ aborted = FALSE

HitTest ==
    /\ ~aborted /\ Total(calls) < MaxCalls /\ calls.hit < MaxOther
    /\ \E point \in HitPoints :
         last' = [LastNone EXCEPT !.op = "hit_test", !.x = point[1],
                                  !.y = point[2],
                                  !.hits = hit_test(Root, point[1], point[2])]
    /\ UNCHANGED contextvars
    /\ calls' = [calls EXCEPT !.hit = @ + 1]
    /\ UNCHANGED <<rootvars, issued, removed, restyled, laid, aborted>>

LayoutNext ==
    \/ Compute
    \/ Resize
    \/ HitTest

SpecLayout == LayoutInit /\ [][LayoutNext]_vars

(***************************************************************************)
(* Box scenes: a panel, its children and the children of its first child,  *)
(* with margins, Auto and Percent sizes and Fixed positions, for the       *)
(* placement rules of pass 2.                                              *)
(***************************************************************************)
BoxPanelStyles ==
    {<<"width_fill", "height_fill", "pad_1">>,
     <<"width_fill", "height_fill", "column", "gap_1">>,
     <<"width_fill", "height_fill", "no_strategy", "pad_1">>}

BoxKidStyles ==
    {<<"width_fill", "height_fill", "grow_1">>,
     <<"width_3", "height_auto", "pad_1", "margin_2_1">>,
     <<"width_auto", "height_2", "margin_2_1">>,
     <<"width_3", "height_half">>,
     <<"fit_text">>,
     <<"width_fill", "height_fill", "fixed_1_1">>}

BoxGrandKidStyles ==
    {<<"width_fill", "height_fill", "fixed_1_1">>,
     <<"width_fill", "height_fill">>}

\* the styles of n children: any style for the first, one style for the rest
BoxKidLists(n) ==
    {<<k>> \o [i \in 1..(n - 1) |-> others] :
        k \in BoxKidStyles, others \in BoxKidStyles}

\* a scene with children under its first child
BoxScene(width, height, panel, kids, grandkids) ==
    add_kids(Scene(width, height, panel, kids),
             [id |-> 1, generation |-> 0], grandkids)

BoxScenes ==
    {BoxScene(CanvasW, CanvasH, panel, kids, grandkids) :
        panel \in BoxPanelStyles,
        kids \in UNION {BoxKidLists(n) : n \in 1..MaxKids},
        grandkids \in {<<>>} \cup {<<g>> : g \in BoxGrandKidStyles}}

BoxInit ==
    /\ NoContext
    /\ \E R \in BoxScenes :
          /\ capsules = R.capsules
          /\ capsule_free_list = R.capsule_free_list
          /\ spaces = R.spaces
          /\ styles = R.styles
          /\ dirties = R.dirties
          /\ allocator = R.allocator
          /\ issued = LiveRefs(R.capsules)
          /\ removed = {}
    /\ last = LastNone
    /\ calls = CallsNone
    /\ restyled = {}
    /\ laid = NotLaid
    /\ aborted = FALSE

BoxNext ==
    \/ Compute
    \/ Resize

SpecBox == BoxInit /\ [][BoxNext]_vars

(***************************************************************************)
(* The deka Context (crates/deka/src/lib.rs): a Root, the elements built   *)
(* on it and the click callbacks registered for them.  The HashMaps are    *)
(* kept as sets of entries [ref, ...] with at most one entry per key.  A   *)
(* mouse coordinate is an f64; the runs use multiples of one half, held    *)
(* as the number of halves.                                                *)
(***************************************************************************)
\* HashMap::insert, HashMap::contains_key
map_insert(m, entry) == {e \in m : e.ref # entry.ref} \cup {entry}
map_has(m, k) == \E e \in m : e.ref = k

\* f64::ceil() as i32 of a coordinate given in halves
ceil_i32(halves) == (halves + 1) \div 2

\* impl Ord for CapsuleRef: the id, then the generation; -1, 0 or 1
cmp(a, b) ==
    IF a.id < b.id THEN -1
    ELSE IF a.id > b.id THEN 1
    ELSE IF a.generation < b.generation THEN -1
    ELSE IF a.generation > b.generation THEN 1
    ELSE 0

\* a comparator that puts the lowest (z_index, CapsuleRef) first
hit_before_ascending(a, b) ==
    \/ a.z_index < b.z_index
    \/ (a.z_index = b.z_index /\ cmp(a.cref, b.cref) < 0)

\* |a, b| b.1.cmp(&a.1).then(b.0.cmp(&a.0)) is Less
hit_before(a, b) ==
    \/ b.z_index < a.z_index
    \/ (b.z_index = a.z_index /\ cmp(b.cref, a.cref) < 0)

\* candidates.sort_by(..): slice::sort_by is a stable sort
candidates_sort_by(q) ==
    LET rank == [i \in 1..Len(q) |->
                    Cardinality({j \in 1..Len(q) :
                        \/ hit_before(q[j], q[i])
                        \/ (~hit_before(q[i], q[j]) /\ j < i)})]
    IN [k \in 1..Len(q) |-> q[CHOOSE i \in 1..Len(q) : rank[i] = k - 1]]

\* the hits with a style, paired with their z_index and sorted
hit_candidates(R, x, y) ==
    LET styled == SelectSeq(hit_test(R, x, y),
                      LAMBDA cref : get_style(R, cref).some)
    IN candidates_sort_by([i \in 1..Len(styled) |->
                              [cref |-> styled[i],
                               z_index |-> get_style(R, styled[i]).z_index]])

\* the Context as one value
Context ==
    [root |-> Root, root_frame |-> [id |-> 0, generation |-> 0],
     elements |-> elements, click_callbacks |-> click_callbacks,
     mouse_pos |-> mouse_pos, mouse_pressed |-> mouse_pressed]

\* Context::new
ContextNew(width, height) ==
    LET r == internal_add_frame(RootNew(width, height), NoRef, NoneU) IN
    [root |-> Frame_update_style(r.root, r.frame, "root_panel"),
     root_frame |-> r.frame,
     elements |-> {[ref |-> r.frame, kind |-> "Panel", data_ref |-> NoneU]},
     click_callbacks |-> {},
     mouse_pos |-> [x |-> 0, y |-> 0],
     mouse_pressed |-> FALSE]

\* parent_frame.unwrap_or(root_frame)
parent_or_root(C, parent_frame) ==
    IF parent_frame.some THEN RefOf(parent_frame) ELSE C.root_frame

\* Context::new_panel
new_panel(C, parent_frame, style) ==
    LET r == internal_add_frame(C.root,
                 SomeRef(parent_or_root(C, parent_frame)), NoneU)
    IN [context |->
          [C EXCEPT !.root = Frame_update_style(r.root, r.frame, style),
                    !.elements = map_insert(@,
                        [ref |-> r.frame, kind |-> "Panel",
                         data_ref |-> NoneU])],
        element |-> r.frame]

\* Context::new_label with Label::new
new_label(C, parent_frame) ==
    LET b == alloc(C.root.allocator, Payload("Buffer", 0))
        r == internal_add_frame([C.root EXCEPT !.allocator = b.allocator],
                 SomeRef(parent_or_root(C, parent_frame)), SomeU(b.id))
    IN [context |->
          [C EXCEPT !.root = Frame_update_style(r.root, r.frame, "fit_text"),
                    !.elements = map_insert(@,
                        [ref |-> r.frame, kind |-> "Label",
                         data_ref |-> SomeU(b.id)])],
        element |-> r.frame]

\* Context::on_click
on_click(C, element, callback) ==
    [C EXCEPT !.click_callbacks =
        map_insert(@, [ref |-> element, callback |-> callback])]

\* the closures of the runs, by name; `call` is the closure's body: "count"
\* leaves the Context alone, "rebind" registers "count" for its own element
\* through the &mut Context it is handed
Callbacks == {"count"}
call(callback, C, cref) ==
    IF callback = "rebind" THEN on_click(C, cref, "count") ELSE C

\* the first candidate with a registered click callback
first_with_callback(candidates, callbacks) ==
    LET with == {i \in 1..Len(candidates) :
                    map_has(callbacks, candidates[i].cref)}
    IN IF with = {} THEN NoRef
       ELSE SomeRef(candidates[CHOOSE i \in with :
                                   \A j \in with : i <= j].cref)

\* Context::click: [context, invoked], invoked the handles whose callback
\* ran, in order
click(C, pressed) ==
    IF pressed
    THEN [context |-> [C EXCEPT !.mouse_pressed = TRUE], invoked |-> <<>>]
    ELSE IF ~C.mouse_pressed
    THEN [context |-> C, invoked |-> <<>>]
    ELSE
    LET C1 == [C EXCEPT !.mouse_pressed = FALSE]
        found == first_with_callback(
                     hit_candidates(C.root, ceil_i32(C.mouse_pos.x),
                                    ceil_i32(C.mouse_pos.y)),
                     C.click_callbacks)
    IN IF ~found.some
       THEN [context |-> C1, invoked |-> <<>>]
       ELSE LET cref == RefOf(found)
                entry == CHOOSE e \in C.click_callbacks : e.ref = cref
                C2 == call(entry.callback,
                          [C1 EXCEPT !.click_callbacks = @ \ {entry}], cref)
            IN [context |-> [C2 EXCEPT !.click_callbacks =
                                          map_insert(@, entry)],
                invoked |-> <<cref>>]

\* Context::new_button
new_button(C, parent_frame, callback) ==
    LET r == internal_add_frame(C.root,
                 SomeRef(parent_or_root(C, parent_frame)), NoneU)
        C1 == [C EXCEPT !.root = Frame_update_style(r.root, r.frame, "button")]
        C2 == new_label(C1, SomeRef(r.frame)).context
    IN [context |->
          [C2 EXCEPT !.click_callbacks =
                        map_insert(@, [ref |-> r.frame,
                                       callback |-> callback]),
                     !.elements = map_insert(@,
                        [ref |-> r.frame, kind |-> "Button",
                         data_ref |-> NoneU])],
        element |-> r.frame]

(***************************************************************************)
(* The state machine of a Context: elements are created, callbacks are     *)
(* registered, the window delivers CursorMoved and MouseInput events and   *)
(* the frame loop calls compute_layout and render.                         *)
(***************************************************************************)
MaxEvents == 2      \* mouse inputs

\* the styles new_panel is called with
ContextPanelStyles == {"small_panel", "raised_panel"}

\* the positions the cursor is moved to, in halves: a point that rounds up
\* onto the right and bottom edge of a 3 x 2 element at the origin, and a
\* point that rounds up past that edge (the cursor starts at the origin)
MousePositions == {[x |-> 5, y |-> 3], [x |-> 7, y |-> 3]}

ElementRefs == {e.ref : e \in elements}
\* the parents of the runs: none, or the first panel created under the
\* root frame
ParentArgs ==
    {NoRef} \cup {SomeRef(e.ref) : e \in {p \in elements :
                                             p.kind = "Panel" /\ p.ref.id = 1}}

InstallContext(C) ==
    /\ Install(C.root)
    /\ elements' = C.elements
    /\ click_callbacks' = C.click_callbacks
    /\ mouse_pos' = C.mouse_pos
    /\ mouse_pressed' = C.mouse_pressed

ContextInit ==
    /\ \E C \in {ContextNew(CanvasW, CanvasH)} :
          /\ capsules = C.root.capsules
          /\ capsule_free_list = C.root.capsule_free_list
          /\ spaces = C.root.spaces
          /\ styles = C.root.styles
          /\ dirties = C.root.dirties
          /\ allocator = C.root.allocator
          /\ elements = C.elements
          /\ click_callbacks = C.click_callbacks
          /\ mouse_pos = C.mouse_pos
          /\ mouse_pressed = C.mouse_pressed
          /\ issued = LiveRefs(C.root.capsules)
    /\ removed = {}
    /\ last = LastNone
    /\ calls = CallsNone
    /\ restyled = {}
    /\ laid = NotLaid
    /\ aborted = FALSE

Created(r) ==
    /\ InstallContext(r.context)
    /\ issued' = LiveRefs(r.context.root.capsules)
    /\ calls' = [calls EXCEPT !.add = @ + 1]
    /\ laid' = NotLaid
    /\ UNCHANGED <<removed, restyled, aborted>>

NewPanel ==
    /\ ~aborted /\ Total(calls) < MaxCalls /\ calls.add < MaxAdds
    /\ \E parent_frame \in ParentArgs, style \in ContextPanelStyles :
         \E r \in {new_panel(Context, parent_frame, style)} :
            /\ Created(r)
            /\ last' = [LastNone EXCEPT !.op = "new_panel", !.ref = r.element]

NewButton ==
    /\ ~aborted /\ Total(calls) < MaxCalls /\ calls.add < MaxAdds
    /\ \E parent_frame \in ParentArgs, callback \in Callbacks :
         \E r \in {new_button(Context, parent_frame, callback)} :
            /\ Created(r)
            /\ last' = [LastNone EXCEPT !.op = "new_button", !.ref = r.element]

OnClick ==
    /\ ~aborted /\ Total(calls) < MaxCalls /\ calls.on_click < MaxOther
    /\ \E element \in ElementRefs, callback \in Callbacks :
         /\ click_callbacks' = on_click(Context, element, callback).click_callbacks
         /\ last' = [LastNone EXCEPT !.op = "on_click", !.ref = element]
    /\ calls' = [calls EXCEPT !.on_click = @ + 1]
    /\ UNCHANGED <<rootvars, elements, mouse_pos, mouse_pressed, issued,
                   removed, restyled, laid, aborted>>

\* WindowEvent::CursorMoved
CursorMoved ==
    /\ ~aborted /\ Total(calls) < MaxCalls /\ calls.cursor < MaxOther
    /\ \E position \in MousePositions :
         /\ mouse_pos' = position
         /\ last' = [LastNone EXCEPT !.op = "cursor_moved"]
    /\ calls' = [calls EXCEPT !.cursor = @ + 1]
    /\ UNCHANGED <<rootvars, elements, click_callbacks, mouse_pressed, issued,
                   removed, restyled, laid, aborted>>

\* WindowEvent::MouseInput
Click ==
    /\ ~aborted /\ Total(calls) < MaxCalls /\ calls.click < MaxEvents
    /\ \E pressed \in BOOLEAN :
         \E r \in {click(Context, pressed)} :
            /\ InstallContext(r.context)
            /\ last' = [LastNone EXCEPT !.op = "click", !.pressed = pressed,
                                        !.invoked = r.invoked]
    /\ calls' = [calls EXCEPT !.click = @ + 1]
    /\ UNCHANGED <<issued, removed, restyled, laid, aborted>>

(***************************************************************************)
(* Context::render.  `order` is the order in which the loop meets the      *)
(* entries of the elements HashMap; a HashMap iterates in an arbitrary     *)
(* order.  A command is kept with its key (z_index, priority, CapsuleRef)  *)
(* until the sort is done.                                                 *)
(***************************************************************************)
Rect(space, style) ==
    [type |-> "Rect", space |-> space, z_index |-> style.z_index,
     buffer_ref |-> NoneU]
Text(space, style, data_ref) ==
    [type |-> "Text", space |-> space, z_index |-> style.z_index,
     buffer_ref |-> data_ref]

\* the commands one entry of the map pushes
element_commands(R, element) ==
    LET space == get_space(R, element.ref)
        style == get_style(R, element.ref)
    IN IF space.some /\ style.some
       THEN <<[z_index |-> style.z_index, priority |-> 0,
               cref |-> element.ref, command |-> Rect(space, style)]>>
            \o (IF element.kind = "Label" /\ element.data_ref.some
                THEN <<[z_index |-> style.z_index, priority |-> 1,
                        cref |-> element.ref,
                        command |-> Text(space, style, element.data_ref)]>>
                ELSE <<>>)
       ELSE <<>>

RECURSIVE pushed_commands(_, _)
pushed_commands(R, order) ==
    IF order = <<>> THEN <<>>
    ELSE element_commands(R, Head(order)) \o pushed_commands(R, Tail(order))

\* a comparator that stops at the priority
command_before_no_ref(a, b) ==
    \/ a.z_index < b.z_index
    \/ (a.z_index = b.z_index /\ a.priority < b.priority)

\* |a, b| a.0.cmp(&b.0).then(a.1.cmp(&b.1)).then(a.2.cmp(&b.2)) is Less
command_before(a, b) ==
    \/ a.z_index < b.z_index
    \/ (a.z_index = b.z_index /\ a.priority < b.priority)
    \/ (a.z_index = b.z_index /\ a.priority = b.priority
          /\ cmp(a.cref, b.cref) < 0)

\* commands.sort_by(..): slice::sort_by is a stable sort
commands_sort_by(q) ==
    LET rank == [i \in 1..Len(q) |->
                    Cardinality({j \in 1..Len(q) :
                        \/ command_before(q[j], q[i])
                        \/ (~command_before(q[i], q[j]) /\ j < i)})]
    IN [k \in 1..Len(q) |-> q[CHOOSE i \in 1..Len(q) : rank[i] = k - 1]]

\* the sorted vector, before the keys are dropped
render_sorted(C, order) ==
    commands_sort_by(pushed_commands(C.root, order))

\* commands.into_iter().map(|(_, _, _, cmd)| cmd).collect()
drop_keys(sorted) == [i \in 1..Len(sorted) |-> sorted[i].command]

render(C, order) == drop_keys(render_sorted(C, order))

\* the entries of a map by ascending key
ascending(m) ==
    [k \in 1..Cardinality(m) |->
        CHOOSE e \in m :
            Cardinality({f \in m : cmp(f.ref, e.ref) < 0}) = k - 1]

rotate(q, n) == [i \in 1..Len(q) |-> q[((i + n - 1) % Len(q)) + 1]]
reverse(q) == [i \in 1..Len(q) |-> q[Len(q) + 1 - i]]

\* the iteration orders of the runs, from the ascending order `asc`: asc
\* rotated by one, and asc reversed
IterationOrders(asc) == {rotate(asc, 1), reverse(asc)}

\* WindowEvent::RedrawRequested: compute_layout, then render
Redraw ==
    /\ ~aborted /\ Total(calls) < MaxCalls /\ calls.render < MaxComputes
    /\ \E r \in {compute(Root)} :
         /\ IF r.ok THEN Install(r.root) ELSE UNCHANGED rootvars
         /\ aborted' = ~r.ok
         /\ laid' = IF r.ok /\ ~laid.valid
                     THEN [valid |-> TRUE, spaces |-> r.root.spaces]
                     ELSE laid
         /\ \E asc \in {ascending(elements)} :
              \E order \in IterationOrders(asc) :
                 \E sorted \in {render_sorted([Context EXCEPT !.root = r.root],
                                              order)} :
                    last' = [LastNone EXCEPT !.op = "render",
                                             !.ran = is_dirty(Root),
                                             !.sorted = sorted,
                                             !.commands = drop_keys(sorted)]
    /\ calls' = [calls EXCEPT !.render = @ + 1]
    /\ restyled' = {}
    /\ UNCHANGED <<contextvars, issued, removed>>

ContextNext ==
    \/ NewPanel
    \/ NewButton
    \/ OnClick
    \/ CursorMoved
    \/ Click
    \/ Redraw

SpecContext == ContextInit /\ [][ContextNext]_vars

(***************************************************************************)
(* Runs whose application registers a closure that calls on_click on the   *)
(* Context it is handed, for the element it was invoked for.               *)
(***************************************************************************)
Closures == {"rebind"}

OnClickClosure ==
    /\ ~aborted /\ Total(calls) < MaxCalls /\ calls.on_click < MaxOther
    /\ \E element \in ElementRefs, callback \in Closures :
         /\ click_callbacks' = on_click(Context, element, callback).click_callbacks
         /\ last' = [LastNone EXCEPT !.op = "on_click", !.ref = element]
    /\ calls' = [calls EXCEPT !.on_click = @ + 1]
    /\ UNCHANGED <<rootvars, elements, mouse_pos, mouse_pressed, issued,
                   removed, restyled, laid, aborted>>

DispatchNext ==
    \/ NewButton
    \/ OnClickClosure
    \/ CursorMoved
    \/ Click
    \/ Redraw

SpecDispatch == ContextInit /\ [][DispatchNext]_vars

(***************************************************************************)
(* The data bindings of a Root: set_binding, get_binding and               *)
(* get_binding_mut hand the call to the arena; a frame created with        *)
(* Some(data_ref) releases that slot in unbind_data and remove_frame.  A   *)
(* DataRef is a plain usize: the caller can pass any index.                *)
(***************************************************************************)
MaxBinds == 2       \* calls of set_binding, of add_frame with a DataRef
                    \* and of unbind_data, each

Types == {"Buffer", "Flag"}
Payloads == {Payload("Buffer", 0), Payload("Buffer", 1), Payload("Flag", 0)}

\* the indexes of the runs: those the arena can have handed out, and one
\* past them
DataRefs == 0..MaxBinds

\* Root::set_binding
set_binding(R, data) ==
    [root |-> [R EXCEPT !.allocator = alloc(@, data).allocator],
     index |-> alloc(R.allocator, data).id]

\* Root::get_binding::<T>, Root::get_binding_mut::<T>
get_binding(R, index, T) == get(R.allocator, index, T)

BindData ==
    /\ ~aborted /\ Total(calls) < MaxCalls /\ calls.bind < MaxBinds
    /\ \E data \in Payloads :
         \E r \in {set_binding(Root, data)} :
            /\ Install(r.root)
            /\ last' = [LastNone EXCEPT !.op = "set_binding",
                                        !.index = r.index, !.data = data]
    /\ UNCHANGED contextvars
    /\ calls' = [calls EXCEPT !.bind = @ + 1]
    /\ laid' = NotLaid
    /\ UNCHANGED <<issued, removed, restyled, aborted>>

AddDataFrame ==
    /\ ~aborted /\ Total(calls) < MaxCalls /\ calls.add < MaxBinds
    /\ \E index \in DataRefs :
         \E r \in {internal_add_frame(Root, NoRef, SomeU(index))} :
            /\ Install(r.root)
            /\ issued' = issued \cup {r.frame}
            /\ last' = [LastNone EXCEPT !.op = "add_frame", !.ref = r.frame,
                                        !.live = TRUE, !.index = index]
    /\ UNCHANGED contextvars
    /\ calls' = [calls EXCEPT !.add = @ + 1]
    /\ laid' = NotLaid
    /\ UNCHANGED <<removed, restyled, aborted>>

UnbindFrame ==
    /\ ~aborted /\ Total(calls) < MaxCalls /\ calls.unbind < MaxBinds
    /\ \E frame_ref \in issued :
         \E r \in {unbind_data(Root, frame_ref)} :
            /\ Install(r.root)
            /\ last' = [LastNone EXCEPT
                          !.op = "unbind_data", !.ref = frame_ref,
                          !.live = IsLive(capsules, frame_ref), !.ok = r.ok]
    /\ UNCHANGED contextvars
    /\ calls' = [calls EXCEPT !.unbind = @ + 1]
    /\ laid' = NotLaid
    /\ UNCHANGED <<issued, removed, restyled, aborted>>

GetBinding ==
    /\ ~aborted /\ Total(calls) < MaxCalls /\ calls.get < MaxOther
    /\ \E index \in DataRefs, T \in Types :
         last' = [LastNone EXCEPT !.op = "get_binding", !.index = index,
                                  !.type = T,
                                  !.got = get_binding(Root, index, T)]
    /\ UNCHANGED contextvars
    /\ calls' = [calls EXCEPT !.get = @ + 1]
    /\ UNCHANGED <<rootvars, issued, removed, restyled, laid, aborted>>

ArenaNext ==
    \/ BindData
    \/ AddDataFrame
    \/ UnbindFrame
    \/ RemoveFrame
    \/ GetBinding

SpecArena == Init /\ [][ArenaNext]_vars

(***************************************************************************)
(* The Arena of the root crate (src/arena.rs), the bump-backed store the   *)
(* root crate's Root keeps in its `arena` field.  In these runs the        *)
(* variable `allocator` holds that Arena: allocation_ptrs is the vector of *)
(* optional pointers, deallocs the queue of released indexes.  The bump    *)
(* never frees, so a pointer is modelled by the value it points to.        *)
(* `issued` holds the indexes handed out and not released since.           *)
(***************************************************************************)
ArenaNew == [allocation_ptrs |-> <<>>, deallocs |-> <<>>]

\* Arena::alloc: [arena, idx]
arena_alloc(A, any) ==
    [arena |-> [allocation_ptrs |-> Append(A.allocation_ptrs, SomeData(any)),
                deallocs |-> IF A.deallocs # <<>> THEN Tail(A.deallocs)
                             ELSE A.deallocs],
     idx |-> IF A.deallocs # <<>> THEN Head(A.deallocs)
             ELSE Len(A.allocation_ptrs)]

\* Arena::dealloc: [arena, ok]
arena_dealloc(A, id) ==
    IF InRange(A.allocation_ptrs, id) /\ At(A.allocation_ptrs, id).some
    THEN [arena |-> [allocation_ptrs |->
                        [A.allocation_ptrs EXCEPT ![id + 1] = NoData],
                     deallocs |-> Append(A.deallocs, id)],
          ok |-> TRUE]
    ELSE [arena |-> A, ok |-> FALSE]

\* Arena::get::<T>: the outcomes of the call.  The pointer is cast to
\* *mut T unchecked: read as another type than the one stored, the result
\* is any value of T
arena_get(A, index, T) ==
    IF InRange(A.allocation_ptrs, index) /\ At(A.allocation_ptrs, index).some
    THEN IF At(A.allocation_ptrs, index).v.type = T
         THEN {At(A.allocation_ptrs, index)}
         ELSE {SomeData(p) : p \in {q \in Payloads : q.type = T}}
    ELSE {NoData}

BumpInit ==
    /\ NoContext
    /\ capsules = RootNew(CanvasW, CanvasH).capsules
    /\ capsule_free_list = RootNew(CanvasW, CanvasH).capsule_free_list
    /\ spaces = RootNew(CanvasW, CanvasH).spaces
    /\ styles = RootNew(CanvasW, CanvasH).styles
    /\ dirties = RootNew(CanvasW, CanvasH).dirties
    /\ allocator = ArenaNew
    /\ issued = {}
    /\ removed = {}
    /\ last = LastNone
    /\ calls = CallsNone
    /\ restyled = {}
    /\ laid = NotLaid
    /\ aborted = FALSE

\* Root::set_binding of the root crate, followed by get_binding::<T> of the
\* index it returned, T the type of the value
BumpAlloc ==
    /\ Total(calls) < MaxCalls /\ calls.bind < MaxBinds
    /\ \E any \in Payloads :
         \E r \in {arena_alloc(allocator, any)} :
            /\ allocator' = r.arena
            /\ issued' = issued \cup {r.idx}
            /\ \E got \in arena_get(r.arena, r.idx, any.type) :
                  last' = [LastNone EXCEPT !.op = "alloc", !.index = r.idx,
                                           !.data = any, !.got = got,
                                           !.live = r.idx \in issued]
    /\ calls' = [calls EXCEPT !.bind = @ + 1]
    /\ UNCHANGED <<capsules, capsule_free_list, spaces, styles, dirties,
                   removed, restyled, laid, aborted>>
    /\ UNCHANGED contextvars

BumpDealloc ==
    /\ Total(calls) < MaxCalls /\ calls.unbind < MaxBinds
    /\ \E id \in DataRefs :
         \E r \in {arena_dealloc(allocator, id)} :
            /\ allocator' = r.arena
            /\ issued' = IF r.ok THEN issued \ {id} ELSE issued
            /\ last' = [LastNone EXCEPT !.op = "dealloc", !.index = id,
                                        !.ok = r.ok]
    /\ calls' = [calls EXCEPT !.unbind = @ + 1]
    /\ UNCHANGED <<capsules, capsule_free_list, spaces, styles, dirties,
                   removed, restyled, laid, aborted>>
    /\ UNCHANGED contextvars

BumpGet ==
    /\ Total(calls) < MaxCalls /\ calls.get < MaxOther
    /\ \E index \in DataRefs, T \in Types :
         \E got \in arena_get(allocator, index, T) :
            last' = [LastNone EXCEPT !.op = "get", !.index = index,
                                     !.type = T, !.got = got]
    /\ calls' = [calls EXCEPT !.get = @ + 1]
    /\ UNCHANGED <<rootvars, issued, removed, restyled, laid, aborted>>
    /\ UNCHANGED contextvars

BumpNext ==
    \/ BumpAlloc
    \/ BumpDealloc
    \/ BumpGet

SpecBump == BumpInit /\ [][BumpNext]_vars

(***************************************************************************)
(* Derived notions used by the properties.                                 *)
(***************************************************************************)
SlotOccupied(caps, h) == InRange(caps, h.id) /\ At(caps, h.id).capsule.some

Count(q, e) == Cardinality({i \in 1..Len(q) : q[i] = e})

\* the handles reached from h by n or fewer parent_ref steps through live
\* capsules (h itself excluded unless a cycle leads back to it)
RECURSIVE AncestorsWithin(_, _, _)
AncestorsWithin(caps, h, n) ==
    LET cap == get_capsule(caps, h) IN
    IF n = 0 \/ ~cap.some \/ ~cap.parent_ref.some
    THEN {}
    ELSE {RefOf(cap.parent_ref)}
           \cup AncestorsWithin(caps, RefOf(cap.parent_ref), n - 1)

Ancestors(caps, h) == AncestorsWithin(caps, h, Len(caps))

\* h lies in a tree compute lays out: its parent links lead, through live
\* capsules that list the node below them, to a parentless capsule
RECURSIVE InForestWithin(_, _, _)
InForestWithin(caps, h, n) ==
    LET cap == get_capsule(caps, h) IN
    /\ cap.some
    /\ \/ ~cap.parent_ref.some
       \/ /\ n > 0
          /\ get_capsule(caps, RefOf(cap.parent_ref)).some
          /\ Count(get_capsule(caps, RefOf(cap.parent_ref)).children, h) > 0
          /\ InForestWithin(caps, RefOf(cap.parent_ref), n - 1)

InForest(caps, h) == InForestWithin(caps, h, Len(caps))

\* the live capsules below h, through the children lists (h included)
RECURSIVE Subtree(_, _, _)
Subtree(caps, frontier, seen) ==
    LET fresh == {h \in frontier : IsLive(caps, h)} \ seen IN
    IF fresh = {}
    THEN seen
    ELSE Subtree(caps,
             UNION {{get_capsule(caps, h).children[i] :
                        i \in 1..Len(get_capsule(caps, h).children)} :
                    h \in fresh},
             seen \cup fresh)

(***************************************************************************)
(* C1: once remove_frame has freed a handle, get_space and get_style       *)
(* return None for it in every later state, also after its slot was        *)
(* recycled by add_frame / add_frame_child.                                *)
(***************************************************************************)
C1_RemovedHandleStaysStale ==
    \A h \in removed :
        /\ ~get_space(Root, h).some
        /\ ~get_style(Root, h).some

\* a freed handle whose slot holds a new capsule
C1_Witness ==
    \E h \in removed : SlotOccupied(capsules, h)

(***************************************************************************)
(* C2: every live capsule whose parent_ref is present has a live parent    *)
(* whose children list contains it exactly once.                           *)
(***************************************************************************)
C2_ParentLiveAndListsChildOnce ==
    \A h \in LiveRefs(capsules) :
        LET cap == get_capsule(capsules, h) IN
        cap.parent_ref.some =>
            /\ IsLive(capsules, RefOf(cap.parent_ref))
            /\ Count(get_capsule(capsules, RefOf(cap.parent_ref)).children, h) = 1

(***************************************************************************)
(* C3: the parent links of the live capsules contain no cycle: no live     *)
(* capsule is reached again by following parent_ref from it.               *)
(***************************************************************************)
C3_NoParentCycle ==
    \A h \in LiveRefs(capsules) : h \notin Ancestors(capsules, h)

(***************************************************************************)
(* C5: a compute() called with an empty dirty set changes nothing in the   *)
(* Root: spaces, styles, capsules, free list, dirty set and data arena.    *)
(***************************************************************************)
C5_ComputeCleanIsNoOp ==
    [][(last'.op = "compute" /\ calls'.compute = calls.compute + 1
        /\ dirties = {}) => UNCHANGED rootvars]_vars

\* compute returned without work although a live capsule was never laid out
C5_Witness ==
    /\ last.op = "compute" /\ ~last.ran
    /\ \E h \in LiveRefs(capsules) :
          /\ InForest(capsules, h)
          /\ ~get_space(Root, h).width.some

(***************************************************************************)
(* C8: right after add_frame / add_frame_child the new capsule is in the   *)
(* dirty set, its Style is the default Style and its Space is zeroed.      *)
(***************************************************************************)
C8_NewFrameStartsDirty ==
    last.op \in {"add_frame", "add_frame_child"} =>
        /\ last.ref \in dirties
        /\ is_dirty(Root)
        /\ get_style(Root, last.ref) = StyleDefault
        /\ get_space(Root, last.ref) = SpaceZero

(***************************************************************************)
(* C10: remove_frame with a stale handle leaves the whole Root unchanged,  *)
(* also when the slot of the handle holds a new capsule.                   *)
(***************************************************************************)
C10_RemoveStaleIsNoOp ==
    [][(last'.op = "remove_frame" /\ calls'.remove = calls.remove + 1
        /\ ~IsLive(capsules, last'.ref))
          => (UNCHANGED rootvars /\ ~aborted')]_vars

\* remove_frame was called with a stale handle whose slot is occupied again
C10_Witness ==
    /\ last.op = "remove_frame" /\ ~last.live
    /\ SlotOccupied(capsules, last.ref)

(***************************************************************************)
(* C4: update_style on a live capsule leaves it and every ancestor in the  *)
(* dirty set; and the compute() that follows stores, for every restyled    *)
(* capsule that lies in a tree under a top-level capsule, the Space a      *)
(* layout of the current styles from zeroed spaces gives.                  *)
(***************************************************************************)
Scratch(R) ==
    [R EXCEPT !.spaces =
        [i \in 1..Len(R.spaces) |->
            IF i > 1 /\ R.spaces[i].some THEN SpaceZero ELSE R.spaces[i]]]

FreshLayout(R) == compute_always(Scratch(R)).root

C4_RestyleDirtiesAncestorsAndRelayouts ==
    /\ (last.op = "update_style" /\ last.live) =>
          /\ is_dirty(Root)
          /\ last.ref \in dirties
          /\ Ancestors(capsules, last.ref) \subseteq dirties
    /\ (last.op = "compute" /\ ~aborted) =>
          \A h \in last.restyled :
              InForest(capsules, h) =>
                  get_space(Root, h) = get_space(FreshLayout(Root), h)

\* a compute that followed the restyling of a capsule two levels below its
\* top-level capsule and gave it the size of its new style
C4_Witness ==
    /\ last.op = "compute" /\ last.ran /\ ~aborted
    /\ \E h \in last.restyled :
          /\ InForest(capsules, h)
          /\ Cardinality(Ancestors(capsules, h)) >= 2
          /\ get_style(Root, h).width = Fit
          /\ get_space(Root, h).width = SomeU(5)
          /\ get_space(Root, h).height = SomeU(2)

(***************************************************************************)
(* C6: after a compute() the dirty set is empty, and laying the unchanged  *)
(* tree out again (a second compute(), or resize to the same canvas size   *)
(* and compute()) leaves every live capsule with the Space the first       *)
(* compute() left it with.                                                 *)
(***************************************************************************)
SameSpacesAsLaid ==
    \A h \in LiveRefs(capsules) :
        get_space(Root, h) = get_space([Root EXCEPT !.spaces = laid.spaces], h)

C6_LayoutIdempotent ==
    /\ (last.op = "compute" /\ ~aborted) => ~is_dirty(Root)
    /\ laid.valid => SameSpacesAsLaid

(***************************************************************************)
(* C7: update_style with a stale handle changes no Style and leaves the    *)
(* dirty set as it was; with a live handle it replaces exactly that        *)
(* capsule's Style by the applier's result and the capsule is dirty.       *)
(***************************************************************************)
C7_UpdateStyleScoped ==
    [][(last'.op = "update_style" /\ calls'.style = calls.style + 1) =>
         IF IsLive(capsules, last'.ref)
         THEN /\ styles' = [styles EXCEPT
                   ![get_capsule(capsules, last'.ref).style_ref + 1] =
                       Apply(last'.applier, @)]
              /\ last'.ref \in dirties'
         ELSE UNCHANGED <<styles, dirties>>]_vars

\* update_style was called with a stale handle whose slot is occupied again
C7_Witness ==
    /\ last.op = "update_style" /\ ~last.live
    /\ SlotOccupied(capsules, last.ref)

(***************************************************************************)
(* C9: a remove_frame(n) of a live capsule n that returns leaves n and     *)
(* every capsule below it stale, their bound payloads released, their      *)
(* space and style slots cleared; n is gone from the children of its       *)
(* parent capsule, and that parent is dirty.                               *)
(***************************************************************************)
C9_RemoveFrameReleasesSubtree ==
    [][(last'.op = "remove_frame" /\ calls'.remove = calls.remove + 1
        /\ IsLive(capsules, last'.ref) /\ ~aborted') =>
         LET n == last'.ref
             parent_ref == get_capsule(capsules, n).parent_ref
         IN
         /\ \A d \in Subtree(capsules, {n}, {}) :
               LET cap == get_capsule(capsules, d) IN
               /\ ~IsLive(capsules', d)
               /\ ~get_space([spaces |-> spaces', capsules |-> capsules'], d).some
               /\ ~get_style([styles |-> styles', capsules |-> capsules'], d).some
               /\ ~At(spaces', cap.space_ref).some
               /\ ~At(styles', cap.style_ref).some
               /\ (cap.data_ref.some /\ InRange(allocator.slots, cap.data_ref.v))
                     => ~At(allocator'.slots, cap.data_ref.v).some
         /\ (parent_ref.some /\ IsLive(capsules, RefOf(parent_ref))) =>
               /\ Count(get_capsule(capsules', RefOf(parent_ref)).children, n) = 0
               /\ RefOf(parent_ref) \in dirties']_vars

\* a removal that freed a capsule together with a capsule below it, released
\* a payload and dirtied the parent
C9_Witness ==
    /\ last.op = "remove_frame" /\ last.live /\ ~aborted
    /\ Cardinality(last.freed) >= 2
    /\ allocator.free_list # <<>>
    /\ \E p \in dirties : IsLive(capsules, p)

(***************************************************************************)
(* C11: add_frame_child with a stale parent handle is a no-op: the Root    *)
(* is left as it was and the handle it returns names no live capsule.      *)
(***************************************************************************)
C11_AddChildStaleParentIsNoOp ==
    [][(last'.op = "add_frame_child" /\ calls'.add = calls.add + 1
        /\ ~IsLive(capsules, last'.ref2))
          => (UNCHANGED rootvars /\ ~IsLive(capsules', last'.ref))]_vars

(***************************************************************************)
(* C12: set_parent with a stale child or a stale new parent, unbind_data   *)
(* with a stale handle and Frame::set_dirty with a stale handle leave the  *)
(* capsules (children lists, parent links), the dirty set and the data     *)
(* arena as they were.                                                     *)
(***************************************************************************)
C12_StaleMutationsAreNoOps ==
    [][(\/ /\ last'.op = "set_parent" /\ calls'.reparent = calls.reparent + 1
           /\ (~IsLive(capsules, last'.ref) \/ ~IsLive(capsules, last'.ref2))
        \/ /\ last'.op = "unbind_data" /\ calls'.unbind = calls.unbind + 1
           /\ ~IsLive(capsules, last'.ref)
        \/ /\ last'.op = "set_dirty" /\ calls'.mark = calls.mark + 1
           /\ ~IsLive(capsules, last'.ref))
          => UNCHANGED <<capsules, dirties, allocator>>]_vars

\* the sequence q with every occurrence of e taken out, the rest in order
Without(q, e) ==
    LET keep == {i \in 1..Len(q) : q[i] # e}
        Nth(n) == CHOOSE i \in keep : Cardinality({j \in keep : j < i}) = n - 1
    IN [n \in 1..Cardinality(keep) |-> q[Nth(n)]]

C14_FifoRecycling ==
    [][/\ (last'.op \in {"add_frame", "add_frame_child"}
            /\ calls'.add = calls.add + 1) =>
             /\ last'.ref \notin issued
             /\ IF capsule_free_list # <<>>
                THEN /\ last'.ref.id = capsule_free_list[1]
                     /\ last'.ref.generation
                          = At(capsules, capsule_free_list[1]).generation
                     /\ capsule_free_list'
                          = SubSeq(capsule_free_list, 2, Len(capsule_free_list))
                     /\ Len(capsules') = Len(capsules)
                ELSE /\ last'.ref.id = Len(capsules)
                     /\ last'.ref.generation = 0
                     /\ capsule_free_list' = <<>>
                     /\ Len(capsules') = Len(capsules) + 1
       /\ (last'.op = "remove_frame" /\ calls'.remove = calls.remove + 1
            /\ ~aborted') =>
             /\ Len(capsule_free_list')
                  = Len(capsule_free_list) + Cardinality(last'.freed)
             /\ SubSeq(capsule_free_list', 1, Len(capsule_free_list))
                  = capsule_free_list
             /\ {capsule_free_list'[i] :
                    i \in (Len(capsule_free_list) + 1)..Len(capsule_free_list')}
                  = {h.id : h \in last'.freed}
             /\ \A h \in last'.freed :
                   At(capsules', h.id).generation = h.generation + 1]_vars

\* a creation reused the oldest of two freed slots, with generation 1
C14_Witness ==
    /\ last.op \in {"add_frame", "add_frame_child"}
    /\ last.ref.generation = 1
    /\ capsule_free_list # <<>>
    /\ last.ref.id # capsule_free_list[1]

(***************************************************************************)
(* Derived notions of the layout properties.                               *)
(***************************************************************************)
\* the state is the one a compute that did the layout has just left
JustComputed == last.op = "compute" /\ last.ran /\ ~aborted

Children(h) == get_capsule(capsules, h).children
KidSet(h) == {Children(h)[i] : i \in 1..Len(Children(h))}

\* the content extents of a laid out capsule
ContentW(h) ==
    SatSub(get_space(Root, h).width.v,
           get_style(Root, h).padding.left + get_style(Root, h).padding.right
             + get_style(Root, h).border.size * 2)
ContentH(h) ==
    SatSub(get_space(Root, h).height.v,
           get_style(Root, h).padding.top + get_style(Root, h).padding.bottom
             + get_style(Root, h).border.size * 2)

InFlow(h) == IsLive(capsules, h) /\ get_style(Root, h).position.k = "Auto"

FlexRow(h) == get_style(Root, h).layout = "Flex" /\ get_style(Root, h).flow = "Row"
FlexColumn(h) ==
    get_style(Root, h).layout = "Flex" /\ get_style(Root, h).flow = "Column"

(***************************************************************************)
(* C15: after compute(), in a Flex Row capsule of content width W whose    *)
(* children are n >= 1 in-flow capsules of Fill width, every child is      *)
(* W \div n wide and the widths sum to at most W.                          *)
(***************************************************************************)
C15_FillPartition ==
    JustComputed =>
        \A p \in LiveRefs(capsules) :
            (/\ InForest(capsules, p) /\ FlexRow(p)
             /\ Children(p) # <<>>
             /\ \A c \in KidSet(p) :
                   InFlow(c) /\ get_style(Root, c).width = Fill) =>
                /\ \A c \in KidSet(p) :
                      get_space(Root, c).width
                        = SomeU(ContentW(p) \div Len(Children(p)))
                /\ SumSeq([i \in 1..Len(Children(p)) |->
                              get_space(Root, Children(p)[i]).width.v])
                     <= ContentW(p)

(***************************************************************************)
(* C16: after compute(), in a Flex capsule whose pre-pass took the grow    *)
(* branch (space left over, total flex_grow > 0) or the shrink branch      *)
(* (overflow, total weighted shrink > 0), the final main-axis sizes of     *)
(* the in-flow children plus the total gap differ from the content extent  *)
(* by at most one unit per child (the truncations).                        *)
(***************************************************************************)
InFlowKids(p) == SelectSeq(Children(p), LAMBDA c : InFlow(c))

\* the pre-pass of p as compute ran it: on the sizes of pass 1 and the
\* content box of p
PrePassOf(p) ==
    PrePass(Root, compute_pass_1_measure(Root, spaces, p).spaces,
            get_capsule(capsules, p), get_style(Root, p),
            ContentW(p), ContentH(p))

MainSizes(p) ==
    [i \in 1..Len(InFlowKids(p)) |->
        IF FlexRow(p) THEN get_space(Root, InFlowKids(p)[i]).width.v
        ELSE get_space(Root, InFlowKids(p)[i]).height.v]

Abs(n) == IF n >= 0 THEN n ELSE 0 - n

C16_GrowShrinkConservation ==
    JustComputed =>
        \A p \in LiveRefs(capsules) :
            (/\ InForest(capsules, p)
             /\ get_style(Root, p).layout = "Flex"
             /\ InFlowKids(p) # <<>>
             /\ \/ PrePassOf(p).remaining > 0
                   /\ PrePassOf(p).total_grow_factor > 0
                \/ PrePassOf(p).remaining < 0
                   /\ PrePassOf(p).total_weighted_shrink > 0) =>
                Abs(SumSeq(MainSizes(p))
                      + TotalGap(get_style(Root, p).gap, Len(InFlowKids(p)))
                      - (IF FlexRow(p) THEN ContentW(p) ELSE ContentH(p)))
                  <= Len(InFlowKids(p))

(***************************************************************************)
(* C17: after compute(), a laid out leaf whose width and height are Fit,   *)
(* with intrinsic size W0 x H0 and no padding and border, is W0 wide and   *)
(* H0 high, as top-level capsule and as in-flow or Fixed child of a Flex   *)
(* Row, Flex Column or NoStrategy capsule.                                 *)
(***************************************************************************)
FitLeaf(h) ==
    /\ InForest(capsules, h)
    /\ Children(h) = <<>>
    /\ get_style(Root, h).width = Fit /\ get_style(Root, h).height = Fit
    /\ get_style(Root, h).intrinsic_width.some
    /\ get_style(Root, h).intrinsic_height.some
    /\ get_style(Root, h).padding = Sides(0, 0, 0, 0)
    /\ get_style(Root, h).border.size = 0

C17_FitRoundTrip ==
    JustComputed =>
        \A h \in LiveRefs(capsules) :
            FitLeaf(h) =>
                /\ get_space(Root, h).width = get_style(Root, h).intrinsic_width
                /\ get_space(Root, h).height = get_style(Root, h).intrinsic_height

\* a Fit leaf kept its intrinsic size in a Row that overflows and offered
\* it less
C17_Witness ==
    /\ JustComputed
    /\ \E p \in LiveRefs(capsules) :
          /\ FlexRow(p) /\ PrePassOf(p).remaining < 0
          /\ \E h \in KidSet(p) :
                /\ FitLeaf(h) /\ InFlow(h)
                /\ get_space(Root, h).width = SomeU(5)
                /\ get_space(Root, h).height = SomeU(2)

(***************************************************************************)
(* C18: the example.  On the 800 x 600 canvas, after compute(), the panel  *)
(* (Flex Column, Fill x Fill, padding 20, gap 2) has the Space              *)
(* (0, 0, 800, 600), its first child, the Fit label of intrinsic size      *)
(* 100 x 20, has (20, 20, 100, 20), and its second child, the spacer of    *)
(* Fill height, has y = 42, height 538 and width 760.                      *)
(***************************************************************************)
SpaceOf(sx, sy, w, h) ==
    [some |-> TRUE, x |-> sx, y |-> sy, width |-> SomeU(w), height |-> SomeU(h)]

ExampleScene == At(spaces, 0) = RootSpace(800, 600)

C18_SpecExample ==
    (ExampleScene /\ JustComputed) =>
        /\ get_space(Root, [id |-> 0, generation |-> 0]) = SpaceOf(0, 0, 800, 600)
        /\ get_space(Root, [id |-> 1, generation |-> 0]) = SpaceOf(20, 20, 100, 20)
        /\ get_space(Root, [id |-> 2, generation |-> 0]).y = 42
        /\ get_space(Root, [id |-> 2, generation |-> 0]).height = SomeU(538)
        /\ get_space(Root, [id |-> 2, generation |-> 0]).width = SomeU(760)

(***************************************************************************)
(* C19: resize(w, h) stores w x h in space slot 0 and leaves every live    *)
(* top-level capsule in the dirty set; the compute() that follows it       *)
(* leaves every top-level capsule of Fill width, Fill height and           *)
(* Position::Auto with the Space (0, 0, w, h).                             *)
(***************************************************************************)
TopLevel == {h \in LiveRefs(capsules) : ~get_capsule(capsules, h).parent_ref.some}

FillFill(h) == get_style(Root, h).width = Fill /\ get_style(Root, h).height = Fill

ResizeStep == last'.op = "resize" /\ calls'.resize = calls.resize + 1

ComputeAfterResize ==
    /\ last.op = "resize"
    /\ last'.op = "compute" /\ calls'.compute = calls.compute + 1
    /\ ~aborted'

Extent(o) == IF o.some THEN o.v ELSE 0

Contains(h, x, y) ==
    /\ get_space(Root, h).some
    /\ get_space(Root, h).x <= x
    /\ x <= get_space(Root, h).x + Extent(get_space(Root, h).width)
    /\ get_space(Root, h).y <= y
    /\ y <= get_space(Root, h).y + Extent(get_space(Root, h).height)

C20_HitTestExact ==
    [][(last'.op = "hit_test" /\ calls'.hit = calls.hit + 1) =>
         LET hits == last'.hits IN
         /\ UNCHANGED rootvars
         /\ {hits[i] : i \in 1..Len(hits)}
              = {h \in LiveRefs(capsules) : Contains(h, last'.x, last'.y)}
         /\ \A i \in 1..Len(hits) : IsLive(capsules, hits[i])
         /\ \A i, j \in 1..Len(hits) : i < j => hits[i].id < hits[j].id]_vars

\* a query on the right and bottom edge of a laid out capsule with
\* z_index 1 returned it after a capsule of z_index 0 and passed over a
\* freed slot between the two
C20_Witness ==
    /\ last.op = "hit_test"
    /\ Len(last.hits) >= 2
    /\ \E i \in 2..Len(last.hits) :
          /\ get_style(Root, last.hits[i]).z_index = 1
          /\ get_style(Root, last.hits[1]).z_index = 0
          /\ get_space(Root, last.hits[i]).width.some
          /\ get_space(Root, last.hits[i]).x
               + get_space(Root, last.hits[i]).width.v = last.x
          /\ get_space(Root, last.hits[i]).y
               + get_space(Root, last.hits[i]).height.v = last.y
          /\ last.x > 0 /\ last.y > 0
    /\ \E i \in 1..Len(capsules) :
          /\ ~capsules[i].capsule.some
          /\ i - 1 < last.hits[Len(last.hits)].id

(***************************************************************************)
(* C21.  Click dispatch.  A mouse release that follows a press invokes     *)
(* exactly one callback: that of the hit at the cursor that is highest in  *)
(* (z_index, NodeRef) among the hits with a registered click callback;     *)
(* hits without a callback are passed over, and when no hit has one        *)
(* nothing is invoked.  A press, and a release with no press before it,    *)
(* invoke nothing.                                                         *)
(***************************************************************************)
\* the pixel of a coordinate in halves: the least integer not below it
PixelOf(halves) ==
    CHOOSE n \in -1..(CanvasW + 1) : 2 * n >= halves /\ 2 * (n - 1) < halves

ZOf(h) == get_style(Root, h).z_index

\* a is above b in (z_index, NodeRef)
Above(a, b) ==
    \/ ZOf(a) > ZOf(b)
    \/ /\ ZOf(a) = ZOf(b)
       /\ (a.id > b.id \/ (a.id = b.id /\ a.generation > b.generation))

HitsAtCursor ==
    {h \in LiveRefs(capsules) :
        Contains(h, PixelOf(mouse_pos.x), PixelOf(mouse_pos.y))}

Clickable == {h \in HitsAtCursor : \E e \in click_callbacks : e.ref = h}

C21_ClickDispatch ==
    [][(last'.op = "click" /\ calls'.click = calls.click + 1) =>
         IF ~last'.pressed /\ mouse_pressed
         THEN IF Clickable = {}
              THEN last'.invoked = <<>>
              ELSE /\ Len(last'.invoked) = 1
                   /\ last'.invoked[1] \in Clickable
                   /\ \A c \in Clickable \ {last'.invoked[1]} :
                         Above(last'.invoked[1], c)
         ELSE last'.invoked = <<>>]_vars

\* a release after a press ran the callback of one hit while a hit above
\* it had no callback and a hit below it had one
C21_Witness ==
    /\ last.op = "click" /\ ~last.pressed
    /\ Len(last.invoked) = 1
    /\ \E h \in HitsAtCursor :
          /\ ~(\E e \in click_callbacks : e.ref = h)
          /\ Above(h, last.invoked[1])
    /\ \E c \in Clickable : Above(last.invoked[1], c)

(***************************************************************************)
(* C22.  Among the hits of equal z_index the most recently created node    *)
(* is examined first: right after a node is created no hit of its own      *)
(* z_index stands before it in the dispatch order, whatever creations and  *)
(* removals came before.                                                   *)
(***************************************************************************)
JustAdded == last.op \in {"add_frame", "add_frame_child"}

C22_NewestExaminedFirst ==
    JustAdded =>
        \A i \in 1..Len(hit_candidates(Root, 0, 0)) :
            hit_candidates(Root, 0, 0)[i].cref = last.ref =>
                \A j \in 1..(i - 1) :
                    hit_candidates(Root, 0, 0)[j].z_index
                        # hit_candidates(Root, 0, 0)[i].z_index

(***************************************************************************)
(* C23.  Context::render returns the draw commands in ascending order of   *)
(* (z_index, type priority with Rect before Text, NodeRef).  No two        *)
(* commands have the same key, so the sequence is the same for every       *)
(* iteration order of the elements map, and the Text command of a node     *)
(* comes after the node's own Rect command.                                *)
(***************************************************************************)
\* the key of a is strictly below the key of b
KeyBelow(a, b) ==
    \/ a.z_index < b.z_index
    \/ /\ a.z_index = b.z_index
       /\ \/ a.priority < b.priority
          \/ /\ a.priority = b.priority
             /\ \/ a.cref.id < b.cref.id
                \/ /\ a.cref.id = b.cref.id
                   /\ a.cref.generation < b.cref.generation

\* the commands render owes: a Rect per element with a space and a style,
\* and a Text per such label
Drawn == {e \in elements : get_space(Root, e.ref).some
                             /\ get_style(Root, e.ref).some}
OwedKeys ==
    {<<ZOf(e.ref), 0, e.ref>> : e \in Drawn}
      \cup {<<ZOf(e.ref), 1, e.ref>> :
               e \in {l \in Drawn : l.kind = "Label" /\ l.data_ref.some}}

LiveData(A, i) == i >= 0 /\ i < Len(A.slots) /\ A.slots[i + 1].some

\* the arena after the step differs from the one before at most at slot i
SameBut(i) ==
    \A j \in 0..(Len(allocator.slots) - 1) :
        j # i => /\ j < Len(allocator'.slots)
                 /\ allocator'.slots[j + 1] = allocator.slots[j + 1]

\* the index a frame hands to dealloc in unbind_data, if any
DataOf(frame_ref) == get_capsule(capsules, frame_ref).data_ref

C24_ArenaContract ==
    [][/\ last'.op = "set_binding" /\ calls'.bind = calls.bind + 1 =>
           /\ ~LiveData(allocator, last'.index)
           /\ LiveData(allocator', last'.index)
           /\ allocator'.slots[last'.index + 1].v = last'.data
           /\ \A T \in Types :
                 get_binding(Root', last'.index, T)
                   = (IF T = last'.data.type THEN SomeData(last'.data)
                      ELSE NoData)
           /\ SameBut(last'.index)
       /\ last'.op = "unbind_data" /\ calls'.unbind = calls.unbind + 1
             /\ DataOf(last'.ref).some =>
           /\ last'.ok = LiveData(allocator, DataOf(last'.ref).v)
           /\ ~LiveData(allocator', DataOf(last'.ref).v)
           /\ IF last'.ok THEN /\ SameBut(DataOf(last'.ref).v)
                               /\ Len(allocator'.slots) = Len(allocator.slots)
              ELSE allocator' = allocator
       /\ last'.op = "get_binding" /\ calls'.get = calls.get + 1 =>
           /\ allocator' = allocator
           /\ last'.got =
                (IF LiveData(allocator, last'.index)
                    /\ allocator.slots[last'.index + 1].v.type = last'.type
                 THEN allocator.slots[last'.index + 1]
                 ELSE NoData)
       /\ last'.op = "add_frame" => allocator' = allocator
       /\ \A j \in 0..(Len(allocator.slots) - 1) :
             LiveData(allocator, j) =>
               \/ /\ LiveData(allocator', j)
                  /\ allocator'.slots[j + 1] = allocator.slots[j + 1]
               \/ /\ ~LiveData(allocator', j)
                  /\ last'.op \in {"unbind_data", "remove_frame"}
      ]_vars

\* an allocation reused the index a release had freed
C24_Witness ==
    /\ last.op = "set_binding"
    /\ calls.bind = 2 /\ calls.unbind > 0
    /\ Len(allocator.slots) = 1
    /\ LiveData(allocator, last.index)

\* a second release of the same index returned false
C24_WitnessSecondRelease ==
    /\ last.op = "unbind_data" /\ last.live /\ ~last.ok
    /\ \E i \in 0..(Len(allocator.slots) - 1) : ~LiveData(allocator, i)

(***************************************************************************)
(* C25.  A stale DataRef is detected: once the payload of a DataRef d has  *)
(* been released (a slot of the arena that is in range and empty has been  *)
(* released, since alloc only ever appends occupied slots), get_binding    *)
(* and get_binding_mut of d return None after every later step, a          *)
(* set_binding of the same payload type included.                          *)
(***************************************************************************)
Released(d) == InRange(allocator.slots, d) /\ ~LiveData(allocator, d)

C25_StaleDataRefDetected ==
    [][\A d \in DataRefs : \A T \in Types :
          Released(d) => get_binding(Root', d, T) = NoData]_vars

(***************************************************************************)
(* C26.  The dirty set is closed upwards: in every reachable state a live  *)
(* node of the dirty set that has a parent has that parent in the dirty    *)
(* set too.                                                                *)
(***************************************************************************)
ParentOf(n) == get_capsule(capsules, n).parent_ref

C26_DirtyClosedUpwards ==
    \A n \in dirties :
        IsLive(capsules, n) /\ ParentOf(n).some
            => RefOf(ParentOf(n)) \in dirties

\* a child and its parent are both dirty, and the walk that marked them
\* started at the child
C26_Witness ==
    /\ last.op \in {"update_style", "set_dirty"}
    /\ last.live /\ last.ref \in dirties
    /\ ParentOf(last.ref).some
    /\ IsLive(capsules, RefOf(ParentOf(last.ref)))
    /\ RefOf(ParentOf(last.ref)) # last.ref

(***************************************************************************)
(* C27.  A missing width or height is only transient: whenever a           *)
(* compute() call has returned, get_space of every live node of the forest *)
(* (a parentless node, or a node listed under its live parent, up to a     *)
(* parentless node) has Some width and Some height.                        *)
(***************************************************************************)
Measured(h) ==
    /\ get_space(Root, h).some
    /\ get_space(Root, h).width.some
    /\ get_space(Root, h).height.some

C27_SizesPresentAfterCompute ==
    (last.op = "compute" /\ ~aborted) =>
        \A h \in LiveRefs(capsules) : InForest(capsules, h) => Measured(h)

(***************************************************************************)
(* C28.  compute() always runs to completion.  Both passes walk the        *)
(* children lists down from each parentless capsule and skip a child whose *)
(* handle is stale, so compute terminates exactly when no such walk comes  *)
(* back to a capsule it is still inside of; and a compute that was called  *)
(* returned (it did not overflow the stack or panic).                      *)
(***************************************************************************)
\* the walk down the children lists from h, inside the capsules of
\* active, enters a capsule it has not left yet
RECURSIVE Reenters(_, _, _)
Reenters(caps, h, active) ==
    LET cap == get_capsule(caps, h) IN
    /\ cap.some
    /\ \/ h \in active
       \/ \E i \in 1..Len(cap.children) :
             Reenters(caps, cap.children[i], active \cup {h})

C28_ComputeTerminates ==
    /\ \A i \in 1..Len(top_level_capsules(capsules)) :
          ~Reenters(capsules, top_level_capsules(capsules)[i], {})
    /\ last.op = "compute" => ~aborted

\* compute ran over a forest although set_parent had closed a cycle of
\* parent links among capsules that list each other
C28_Witness ==
    /\ last.op = "compute" /\ last.ran /\ ~aborted
    /\ top_level_capsules(capsules) # <<>>
    /\ \E h \in LiveRefs(capsules) :
          /\ h \in Ancestors(capsules, h)
          /\ Reenters(capsules, h, {})

\* compute ran over a tree whose children list holds a stale handle
C28_WitnessStaleChild ==
    /\ last.op = "compute" /\ last.ran /\ ~aborted
    /\ \E i \in 1..Len(top_level_capsules(capsules)) :
          \E k \in 1..Len(Children(top_level_capsules(capsules)[i])) :
             ~IsLive(capsules, Children(top_level_capsules(capsules)[i])[k])

(***************************************************************************)
(* C29.  Space slot 0 is reserved.  In every reachable state spaces[0] is  *)
(* present and holds the canvas size last given to Root::new or resize: it *)
(* holds the size given to new until the first resize, a resize step       *)
(* leaves the size it was given, and every other step (node creation and   *)
(* removal included) leaves slot 0 as it was.  No capsule's space_ref is 0.*)
(***************************************************************************)
NoCapsuleAtSlot0(caps) ==
    \A i \in 1..Len(caps) :
        caps[i].capsule.some => caps[i].capsule.space_ref # 0

C29_SlotZeroReserved ==
    [][/\ calls.resize = 0 => At(spaces, 0) = RootSpace(CanvasW, CanvasH)
       /\ NoCapsuleAtSlot0(capsules) /\ NoCapsuleAtSlot0(capsules')
       /\ IF last'.op = "resize" /\ calls'.resize = calls.resize + 1
          THEN At(spaces', 0) = RootSpace(last'.width, last'.height)
          ELSE At(spaces', 0) = At(spaces, 0)
      ]_vars

\* after a resize to another size, a node was created and a live node
\* removed, and compute has laid the forest out
C29_Witness ==
    /\ calls.resize > 0 /\ calls.add > 0 /\ calls.compute > 0
    /\ last.op = "remove_frame" /\ last.live /\ ~aborted
    /\ At(spaces, 0) # RootSpace(CanvasW, CanvasH)
    /\ Len(spaces) > 1

(***************************************************************************)
(* C30.  Fixed-position children are excluded from measurement: the size   *)
(* Pass 1 measures for a node is the size it measures for the same node    *)
(* once its Position::Fixed children are taken out of its children list.   *)
(* Stated of the forest a compute() has just measured and laid out.        *)
(***************************************************************************)
IsFixedChild(R, c) ==
    /\ get_capsule(R.capsules, c).some
    /\ get_style(R, c).some
    /\ get_style(R, c).position.k = "Fixed"

\* the Root with every Position::Fixed child dropped from the children lists
WithoutFixedChildren(R) ==
    [R EXCEPT !.capsules =
        [i \in 1..Len(R.capsules) |->
            IF R.capsules[i].capsule.some
            THEN [R.capsules[i] EXCEPT !.capsule.children =
                     SelectSeq(@, LAMBDA c : ~IsFixedChild(R, c))]
            ELSE R.capsules[i]]]

Pass1Size(R, h) ==
    LET m == compute_pass_1_measure(R, R.spaces, h) IN <<m.w, m.h>>

C30_FixedChildrenNotMeasured ==
    (last.op = "compute" /\ last.ran /\ ~aborted) =>
        \A h \in LiveRefs(capsules) :
            Pass1Size(Root, h) = Pass1Size(WithoutFixedChildren(Root), h)

(***************************************************************************)
(* C31.  After compute(), in a NoStrategy (or Grid) capsule every in-flow  *)
(* child sits at the capsule's content-box origin, and a child of Fill     *)
(* width and Fill height has the capsule's content width and content       *)
(* height.                                                                 *)
(***************************************************************************)
ContentX(h) ==
    get_space(Root, h).x + get_style(Root, h).padding.left
      + get_style(Root, h).border.size
ContentY(h) ==
    get_space(Root, h).y + get_style(Root, h).padding.top
      + get_style(Root, h).border.size

Stacked(p) == get_style(Root, p).layout \in {"NoStrategy", "Grid"}

C31_NoStrategyFullContentBox ==
    JustComputed =>
        \A p \in LiveRefs(capsules) :
            (InForest(capsules, p) /\ Stacked(p)) =>
                \A c \in KidSet(p) : InFlow(c) =>
                    /\ get_space(Root, c).x = ContentX(p)
                    /\ get_space(Root, c).y = ContentY(p)
                    /\ (get_style(Root, c).width = Fill
                        /\ get_style(Root, c).height = Fill) =>
                          /\ get_space(Root, c).width = SomeU(ContentW(p))
                          /\ get_space(Root, c).height = SomeU(ContentH(p))

(***************************************************************************)
(* C32.  After compute(), in a Flex capsule an in-flow child whose         *)
(* cross-axis SizeSpec is Auto or Fill has a cross-axis size equal to the  *)
(* capsule's content cross extent minus the child's own two cross-axis     *)
(* margins (saturating at 0); a child with a Pixel or Percent cross size   *)
(* keeps that size (a Percent taken of the extent it is offered).          *)
(***************************************************************************)
IsFlex(p) == get_style(Root, p).layout = "Flex"

CrossSpec(p, c) ==
    IF FlexRow(p) THEN get_style(Root, c).height ELSE get_style(Root, c).width
CrossSize(p, c) ==
    IF FlexRow(p) THEN get_space(Root, c).height ELSE get_space(Root, c).width
\* the content cross extent of p minus the cross-axis margins of c
CrossOffer(p, c) ==
    IF FlexRow(p)
    THEN SatSub(ContentH(p), get_style(Root, c).margin.top
                               + get_style(Root, c).margin.bottom)
    ELSE SatSub(ContentW(p), get_style(Root, c).margin.left
                               + get_style(Root, c).margin.right)

C32_FlexCrossAxis ==
    JustComputed =>
        \A p \in LiveRefs(capsules) :
            (InForest(capsules, p) /\ IsFlex(p)) =>
                \A c \in KidSet(p) : InFlow(c) =>
                    CrossSize(p, c) =
                        (IF CrossSpec(p, c).k \in {"Auto", "Fill"}
                         THEN SomeU(CrossOffer(p, c))
                         ELSE IF CrossSpec(p, c).k = "Pixel"
                         THEN SomeU(CrossSpec(p, c).v)
                         ELSE IF CrossSpec(p, c).k = "Percent"
                         THEN resolve_size(CrossSpec(p, c), CrossOffer(p, c))
                         ELSE CrossSize(p, c))

(***************************************************************************)
(* C33.  After compute(), a Fixed{x, y} child sits at its parent's         *)
(* content-box origin plus (x, y); it was offered the content box pass 2   *)
(* computed for the parent, so a Fixed child of Fill width and Fill height *)
(* has that extent; and the final Space of every in-flow sibling is the    *)
(* one compute() gives it when the parent's Fixed children are taken out   *)
(* of its children list (no gap, no cursor advance, no share of grow or    *)
(* shrink).                                                                *)
(***************************************************************************)
IsFixed(c) == IsLive(capsules, c) /\ get_style(Root, c).position.k = "Fixed"

\* p got its stored height (width) from its Flex Row (Column) parent after
\* pass 2 had arranged p's children: the Auto cross-axis size
LateHeight(p) ==
    /\ ParentOf(p).some /\ InFlow(p)
    /\ FlexRow(RefOf(ParentOf(p))) /\ is_auto(get_style(Root, p).height)
LateWidth(p) ==
    /\ ParentOf(p).some /\ InFlow(p)
    /\ FlexColumn(RefOf(ParentOf(p))) /\ is_auto(get_style(Root, p).width)

\* the content extent pass 2 computed for p: from the size pass 1 desired
\* where the stored one was written late
Pass2ContentW(p) ==
    IF LateWidth(p)
    THEN SatSub(Pass1Size(Root, p)[1],
                get_style(Root, p).padding.left + get_style(Root, p).padding.right
                  + get_style(Root, p).border.size * 2)
    ELSE ContentW(p)
Pass2ContentH(p) ==
    IF LateHeight(p)
    THEN SatSub(Pass1Size(Root, p)[2],
                get_style(Root, p).padding.top + get_style(Root, p).padding.bottom
                  + get_style(Root, p).border.size * 2)
    ELSE ContentH(p)

\* the Root with the Position::Fixed children of p dropped from its list
WithoutFixedChildrenOf(R, p) ==
    [R EXCEPT !.capsules[p.id + 1].capsule.children =
        SelectSeq(@, LAMBDA c : ~IsFixedChild(R, c))]

C33_FixedChildOutOfFlow ==
    JustComputed =>
        \A p \in LiveRefs(capsules) : InForest(capsules, p) =>
            /\ \A c \in KidSet(p) : IsFixed(c) =>
                  /\ get_space(Root, c).x
                       = ContentX(p) + get_style(Root, c).position.x
                  /\ get_space(Root, c).y
                       = ContentY(p) + get_style(Root, c).position.y
                  /\ get_style(Root, c).width = Fill =>
                        get_space(Root, c).width = SomeU(Pass2ContentW(p))
                  /\ get_style(Root, c).height = Fill =>
                        get_space(Root, c).height = SomeU(Pass2ContentH(p))
            /\ (\E c \in KidSet(p) : IsFixed(c)) =>
                  \E r \in {compute_always(WithoutFixedChildrenOf(Root, p))} :
                     \A s \in KidSet(p) : InFlow(s) =>
                        get_space(r.root, s) = get_space(Root, s)

\* a laid out Flex panel with a gap, a Fixed child and an in-flow child
\* that grew into the space left over
C33_Witness ==
    /\ JustComputed
    /\ \E p \in LiveRefs(capsules) :
          /\ IsFlex(p) /\ InForest(capsules, p) /\ get_style(Root, p).gap > 0
          /\ \E c \in KidSet(p) : IsFixed(c) /\ get_style(Root, c).width = Fill
          /\ \E s \in KidSet(p) :
                /\ InFlow(s) /\ get_style(Root, s).flex_grow > 0
                /\ get_space(Root, s).height.v > 0

(***************************************************************************)
(* C34.  In every reachable state the node free list holds exactly the ids *)
(* of the empty slots, each exactly once; a removal through a stale handle *)
(* enqueues nothing; the slot a creation takes was empty, so no slot id is *)
(* handed to two live nodes.                                               *)
(***************************************************************************)
EmptySlots(caps) == {i \in 0..(Len(caps) - 1) : ~At(caps, i).capsule.some}

FreeListExact(caps, free_list) ==
    /\ {free_list[k] : k \in 1..Len(free_list)} = EmptySlots(caps)
    /\ Len(free_list) = Cardinality(EmptySlots(caps))

C34_FreeListExact ==
    [][/\ FreeListExact(capsules, capsule_free_list)
       /\ FreeListExact(capsules', capsule_free_list')
       /\ (last'.op = "remove_frame" /\ calls'.remove = calls.remove + 1
           /\ ~last'.live) => capsule_free_list' = capsule_free_list
       /\ (last'.op \in {"add_frame", "add_frame_child"}
           /\ calls'.add = calls.add + 1) =>
              /\ last'.ref.id \in EmptySlots(capsules)
                    \cup {Len(capsules)}
              /\ IsLive(capsules', last'.ref)
      ]_vars

\* a node was created in a recycled slot while another slot stayed empty
C34_Witness ==
    /\ last.op \in {"add_frame", "add_frame_child"}
    /\ last.ref.generation > 0
    /\ EmptySlots(capsules) # {}

(***************************************************************************)
(* C35.  remove_frame(n) terminates for every handle n in every reachable  *)
(* state, the states set_parent produces included: every remove_frame call *)
(* returns.                                                                *)
(***************************************************************************)
C35_RemoveTerminates == last.op = "remove_frame" => ~aborted

(***************************************************************************)
(* C36.  compute() never fails on a missing value.  In every reachable     *)
(* state the space and style index of every capsule is in range, and the   *)
(* call of compute() ran to its end: the two passes unwrapped no missing   *)
(* width or height, every size pass 2 read was stored by pass 1.           *)
(***************************************************************************)
IndicesInRange ==
    \A i \in 1..Len(capsules) :
        capsules[i].capsule.some =>
            /\ InRange(spaces, capsules[i].capsule.space_ref)
            /\ InRange(styles, capsules[i].capsule.style_ref)

C36_ComputeUnwrapsNothingMissing ==
    /\ IndicesInRange
    /\ last.op = "compute" => ~aborted

\* compute laid out a tree whose children list holds a stale handle, in a
\* Root where a node had never been measured before
C36_Witness ==
    /\ JustComputed /\ calls.compute = 1
    /\ \E p \in LiveRefs(capsules) :
          /\ InForest(capsules, p) /\ Measured(p)
          /\ \E k \in 1..Len(Children(p)) : ~IsLive(capsules, Children(p)[k])

\* compute laid out a node that lives in a recycled slot
C36_WitnessRecycled ==
    /\ JustComputed
    /\ \E h \in LiveRefs(capsules) :
          h.generation > 0 /\ InForest(capsules, h) /\ Measured(h)

(***************************************************************************)
(* C37.  In a Flex container consecutive in-flow children never overlap on *)
(* the main axis: after compute(), in Row flow each in-flow child starts   *)
(* at or after the previous in-flow child's x + width + gap, and in Column *)
(* flow at or after the previous one's y + height + gap.                   *)
(***************************************************************************)
MainStart(p, c) ==
    IF FlexRow(p) THEN get_space(Root, c).x ELSE get_space(Root, c).y
MainSize(p, c) ==
    IF FlexRow(p) THEN get_space(Root, c).width.v
    ELSE get_space(Root, c).height.v

C37_FlexNoMainAxisOverlap ==
    JustComputed =>
        \A p \in LiveRefs(capsules) :
            (InForest(capsules, p) /\ IsFlex(p)) =>
                \A k \in 1..(Len(InFlowKids(p)) - 1) :
                    MainStart(p, InFlowKids(p)[k + 1])
                        >= MainStart(p, InFlowKids(p)[k])
                             + MainSize(p, InFlowKids(p)[k])
                             + get_style(Root, p).gap

(***************************************************************************)
(* C38.  After compute(), children are arranged against the content box of *)
(* their parent's final stored Space: a Fixed-position child with Fill     *)
(* width and Fill height is as wide and as high as its parent's stored     *)
(* width and height minus the parent's padding and twice its border size   *)
(* (saturating at 0), whatever the parent's own SizeSpec and container.    *)
(***************************************************************************)
FixedFill(c) ==
    /\ IsFixed(c)
    /\ get_style(Root, c).width.k = "Fill"
    /\ get_style(Root, c).height.k = "Fill"

C38_ChildrenAgainstFinalSpace ==
    JustComputed =>
        \A p \in LiveRefs(capsules) :
            InForest(capsules, p) =>
                \A c \in KidSet(p) : FixedFill(c) =>
                    /\ get_space(Root, c).width = SomeU(ContentW(p))
                    /\ get_space(Root, c).height = SomeU(ContentH(p))

(***************************************************************************)
(* C39.  Callback registration survives dispatch: when the click callback  *)
(* of element E registers a new click callback for E through on_click      *)
(* while it runs, the callback registered for E after the dispatch is the  *)
(* new one, not the one that was running.                                  *)
(***************************************************************************)
CallbackOf(callbacks, element) ==
    (CHOOSE e \in callbacks : e.ref = element).callback

C39_RegistrationSurvivesDispatch ==
    [][(/\ last'.op = "click" /\ calls'.click = calls.click + 1
        /\ last'.invoked # <<>>
        /\ CallbackOf(click_callbacks, last'.invoked[1]) = "rebind") =>
          /\ map_has(click_callbacks', last'.invoked[1])
          /\ CallbackOf(click_callbacks', last'.invoked[1]) = "count"]_vars

(***************************************************************************)
(* C40.  For the Arena of the root crate: alloc returns an index i such    *)
(* that get(i) yields the value just allocated, whatever allocs and        *)
(* deallocs came before and also when i is recycled from the dealloc       *)
(* queue; and the index is not that of another live allocation.            *)
(***************************************************************************)
C40_AllocThenGet ==
    last.op = "alloc" =>
        /\ last.got = SomeData(last.data)
        /\ ~last.live

====
